---- MODULE Spec2Model ----
(***************************************************************************)
(* A model of the rustengan Maelstrom nodes: the node runtime (main_loop), *)
(* the counter on seq-kv, the multi-node Kafka log on lin-kv and the       *)
(* anti-entropy broadcast.                                                 *)
(*                                                                         *)
(* Every workload has its own specification (SpecCounter, SpecKafka, ...)  *)
(* over the same runtime variables: rx is the mpsc queue the main loop and *)
(* the nested receives pop, net is what Maelstrom still has to deliver,    *)
(* id is the node's msg_id counter, frame is the position of the main      *)
(* thread inside step, loop is how main_loop stands.                       *)
(*                                                                         *)
(* A request to a KV service takes effect when the node writes it: the     *)
(* node is sequential and does nothing between writing the request and     *)
(* popping an event, so every schedule in which the service applies the    *)
(* request later has the same outcome as one in which the node writes it   *)
(* later.  The reply travels through net and rx like every other message.  *)
(***************************************************************************)
EXTENDS Integers, Sequences, FiniteSets, TLC

VARIABLES
    rx,            \* rx[n]: the event queue of node n (std::sync::mpsc channel)
    net,           \* messages written to stdout and not yet delivered
    stdin_open,    \* stdin_open[n]: the reader thread of n has not seen end of input
    loop,          \* loop[n]: "running", or how main_loop ended: "ok", "err", "panic"
    id,            \* id[n]: the node's msg_id counter
    frame,         \* frame[n]: where the main thread of n is inside step
    seqkv,         \* the store of the seq-kv service
    linkv,         \* the store of the lin-kv service
    stash_event,   \* stash_event[n]: LinKv::stash_event of node n
    reqs,          \* ledger of the client requests issued so far
    lost,          \* client requests popped by a nested receive and dropped
    allocated,     \* the offsets LinKv::send has allocated: [node, key, msg, offset]
    bcast,         \* bcast[n]: the BroadcastNode of n (messages, neighborhood, known, ...)
    gossip_waker,  \* gossip_waker[n]: the flag under the mutex of the gossip timer of n
    partition,     \* "none", "cut" while the network is partitioned, "healed" after
    storage,       \* storage[n]: the storage of a single-node Kafka node or of a txn node
    cluster,       \* the node_ids of the init message, the same list at every Kafka node
    timer          \* timer[n]: where the gossip timer thread of a broadcast node is

vars == <<rx, net, stdin_open, loop, id, frame, seqkv, linkv, stash_event, reqs, lost,
          allocated, bcast, gossip_waker, partition, storage, cluster, timer>>

(***************************************************************************)
(* Bounds of the model.                                                    *)
(***************************************************************************)
MaxRequests == 3
MaxLocalSends == 4
MaxDelta == 1

Nodes == {"n0", "n1"}
\* The nodes of the cluster of three.
Nodes3 == Nodes \cup {"n2"}
Deltas == 0 .. MaxDelta

(***************************************************************************)
(* Messages and events (lib.rs).                                           *)
(***************************************************************************)
\* Option::None of a msg_id or a number; Nothing where a record is optional.
None == -1
Nothing == [type |-> "nothing"]

Message(src, dst, mid, in_reply_to, payload) ==
    [src |-> src, dst |-> dst, id |-> mid, in_reply_to |-> in_reply_to, payload |-> payload]

EventMessage(m) == [kind |-> "Message", msg |-> m]
EventEOF == [kind |-> "EOF"]

Client(r) == "c" \o ToString(r)
IsClient(x) == x \notin Nodes3 /\ x \notin {"seq-kv", "lin-kv"}

\* into_reply as it would be if it gave every reply the msg_id 0.
into_reply_IdZero(m, mid, payload) ==
    Message(m.dst, m.src, 0, m.id, payload)

\* into_reply as it would be if it left in_reply_to empty.
into_reply_NoInReplyTo(m, mid, payload) ==
    Message(m.dst, m.src, mid, None, payload)

\* Message::into_reply: src and dst swapped, in_reply_to the request's id;
\* the id is the counter's value (the counter is advanced by the caller).
into_reply(m, mid, payload) ==
    Message(m.dst, m.src, mid, m.id, payload)

Idle == [pc |-> "idle"]

(***************************************************************************)
(* The KV services: read, write and cas on one store, with Maelstrom's     *)
(* error codes 20 (key does not exist) and 22 (precondition failed).       *)
(***************************************************************************)
\* A store is a function from the keys that exist to their values.
Put(store, key, value) == [k \in DOMAIN store \cup {key} |-> IF k = key THEN value ELSE store[k]]

KvApply(store, p) ==
    CASE p.type = "read" ->
            IF p.key \notin DOMAIN store
            THEN [store |-> store, reply |-> [type |-> "error", code |-> 20]]
            ELSE [store |-> store, reply |-> [type |-> "read_ok", value |-> store[p.key]]]
      [] p.type = "write" ->
            [store |-> Put(store, p.key, p.value), reply |-> [type |-> "write_ok"]]
      [] p.type = "cas" ->
            IF p.key \notin DOMAIN store
            THEN IF p.create_if_not_exists
                 THEN [store |-> Put(store, p.key, p.to), reply |-> [type |-> "cas_ok"]]
                 ELSE [store |-> store, reply |-> [type |-> "error", code |-> 20]]
            ELSE IF store[p.key] = p.from
                 THEN [store |-> Put(store, p.key, p.to), reply |-> [type |-> "cas_ok"]]
                 ELSE [store |-> store, reply |-> [type |-> "error", code |-> 22]]

\* The reply of service kv to the request with msg_id mid of node n.
KvReply(kv, n, mid, payload) == Message(kv, n, None, mid, payload)

(***************************************************************************)
(* The clients: every request comes from a client of its own, Client(r),   *)
(* with msg_id r.  reqs[r] records what the client asked and the replies   *)
(* it got.  A request is issued when the reader thread of its node takes   *)
(* it, and a reply written to a client reaches the client at once: a       *)
(* request issued earlier, or a reply seen later, only makes fewer         *)
(* requests count as issued after a reply.                                 *)
(***************************************************************************)
Acked(r) == reqs[r].replies # <<>>

\* The requests that have been answered; reqs[r].after is this set at the
\* time request r was issued.
AckedReqs == {r \in 1 .. Len(reqs) : Acked(r)}

RECURSIVE SumDeltas(_)
SumDeltas(S) ==
    IF S = {} THEN 0
    ELSE LET r == CHOOSE x \in S : TRUE IN reqs[r].payload.delta + SumDeltas(S \ {r})

ClientRequest(n, payload, max) ==
    /\ Len(reqs) < max
    /\ loop[n] = "running"
    /\ LET r == Len(reqs) + 1 IN
        /\ reqs' = Append(reqs, [node |-> n, payload |-> payload, replies |-> <<>>,
                                 after |-> AckedReqs])
        /\ stdin_open[n]
        /\ rx' = [rx EXCEPT ![n] = Append(@, EventMessage(Message(Client(r), n, r, None,
                                                                  payload)))]

\* The ledger after the messages of set out were written: those addressed to
\* clients are handed to them.
Handed(out) ==
    [r \in 1 .. Len(reqs) |->
        LET mine == {m \in out : m.dst = Client(r)} IN
        IF mine = {} THEN reqs[r]
        ELSE [reqs[r] EXCEPT !.replies = Append(@, CHOOSE m \in mine : TRUE)]]

ToNodes(out) == {m \in out : ~IsClient(m.dst)}

(***************************************************************************)
(* The reader thread of main_loop: one stdin line becomes one event; at    *)
(* end of input it enqueues EOF and ends.                                  *)
(***************************************************************************)
Deliver(n) ==
    /\ stdin_open[n]
    /\ loop[n] = "running"
    /\ \E m \in net :
        /\ m.dst = n
        /\ net' = net \ {m}
        /\ rx' = [rx EXCEPT ![n] = Append(@, EventMessage(m))]
    /\ UNCHANGED <<stdin_open, loop, id, frame, seqkv, linkv, stash_event, reqs, lost, allocated,
                   bcast, gossip_waker, partition, storage, cluster, timer>>

StdinEOF(n) ==
    /\ stdin_open[n]
    /\ loop[n] = "running"
    /\ stdin_open' = [stdin_open EXCEPT ![n] = FALSE]
    /\ rx' = [rx EXCEPT ![n] = Append(@, EventEOF)]
    /\ UNCHANGED <<net, loop, id, frame, seqkv, linkv, stash_event, reqs, lost, allocated,
                   bcast, gossip_waker, partition, storage, cluster, timer>>

(***************************************************************************)
(* Counter (bin/counter.rs).                                               *)
(***************************************************************************)
GLOBAL_KEY == "Counter"
SyncPayloads == {0}

\* What a counter step leaves behind: the new frame, the KV request it wrote
\* (or None), the reply it wrote to the client (or None), how many msg_ids
\* it used, how the step ended ("run", "err", "panic") and whether the
\* popped message was dropped.
CounterOut(f, kvreq, reply, used, end, dropped) ==
    [frame |-> f, kvreq |-> kvreq, reply |-> reply, used |-> used, end |-> end,
     dropped |-> dropped]

KvReadReq(key) == [type |-> "read", key |-> key]
KvWriteReq(key, value) == [type |-> "write", key |-> key, value |-> value]
KvCasReq(key, from, to) ==
    [type |-> "cas", key |-> key, from |-> from, to |-> to, create_if_not_exists |-> TRUE]

\* add_delta after read_inner returned old: the compare_exchange is written.
AddCas(req, old) ==
    CounterOut([pc |-> "cas", req |-> req, old |-> old],
               KvCasReq(GLOBAL_KEY, old, old + req.payload.delta), Nothing, 1, "run", FALSE)

\* read_inner returned value g to its caller: add_delta goes on to the CAS,
\* read returns it to step, which replies read_ok.
ReadInnerDone(n, req, g) ==
    IF req.payload.type = "add"
    THEN AddCas(req, g)
    ELSE CounterOut(Idle, Nothing, into_reply(req, id[n], [type |-> "read_ok", value |-> g]),
                    1, "run", FALSE)

StepErr == CounterOut(Idle, Nothing, Nothing, 0, "err", FALSE)
StepPanic == CounterOut(Idle, Nothing, Nothing, 0, "panic", FALSE)
StepErrDropped == CounterOut(Idle, Nothing, Nothing, 0, "err", TRUE)

\* CounterNode::step applied to a message popped by main_loop.
CounterStep(n, m) ==
    CASE m.payload.type = "add" ->
            IF m.payload.delta = 0
            THEN CounterOut(Idle, Nothing, into_reply(m, id[n], [type |-> "add_ok"]),
                            1, "run", FALSE)
            ELSE CounterOut([pc |-> "read", req |-> m], KvReadReq(GLOBAL_KEY), Nothing,
                            1, "run", FALSE)
      [] m.payload.type = "read" /\ "key" \notin DOMAIN m.payload ->
            CounterOut([pc |-> "sync", req |-> m], Nothing, Nothing, 1, "run", FALSE)
      [] OTHER -> StepErr

\* The loop of add_delta as it would be if every failed compare_exchange
\* were tried again.
CasFailed_RetryAll(f, code) ==
    CounterOut([pc |-> "read", req |-> f.req], KvReadReq(GLOBAL_KEY), Nothing, 1, "run", FALSE)

\* The loop of add_delta after compare_exchange failed with an error of
\* this code: PreconditionFailed (22) starts the loop again with
\* read_inner, every other error is returned.
CasFailed(f, code) ==
    IF code = 22
    THEN CounterOut([pc |-> "read", req |-> f.req], KvReadReq(GLOBAL_KEY), Nothing, 1, "run",
                    FALSE)
    ELSE StepErr

\* The receive nested in SeqKv::read, write and compare_exchange: the next
\* event of the queue, whatever it is, is taken as the reply.
CounterNested(n, f, m) ==
    LET p == m.payload
        other == IF IsClient(m.src) THEN StepErrDropped ELSE StepErr
    IN
    CASE f.pc = "read" ->
            IF p.type = "read_ok" THEN ReadInnerDone(n, f.req, p.value)
            ELSE IF p.type = "error"
                 THEN IF p.code = 20
                      THEN CounterOut([pc |-> "init_write", req |-> f.req],
                                      KvWriteReq(GLOBAL_KEY, 0), Nothing, 1, "run", FALSE)
                      ELSE StepErr
                 ELSE other
      [] f.pc = "init_write" ->
            IF p.type = "write_ok" THEN ReadInnerDone(n, f.req, 0)
            ELSE IF p.type = "error" THEN StepErr ELSE other
      [] f.pc = "sync" ->
            IF p.type = "write_ok"
            THEN CounterOut([pc |-> "read", req |-> f.req], KvReadReq(GLOBAL_KEY), Nothing,
                            1, "run", FALSE)
            ELSE IF p.type = "error" THEN StepErr ELSE other
      [] f.pc = "cas" ->
            IF p.type = "cas_ok"
            THEN CounterOut(Idle, Nothing, into_reply(f.req, id[n], [type |-> "add_ok"]),
                            1, "run", FALSE)
            ELSE IF p.type = "error" THEN CasFailed(f, p.code)
                 ELSE other

\* The main thread of a counter node pops one event: in main_loop when it is
\* between steps, in the nested receive of a KV call otherwise.
CounterPop(n) ==
    /\ loop[n] = "running"
    /\ rx[n] # <<>>
    /\ LET ev == Head(rx[n]) IN
       \E sync \in SyncPayloads :
       LET o == IF ev.kind # "Message" THEN StepPanic
                ELSE IF frame[n].pc = "idle" THEN CounterStep(n, ev.msg)
                ELSE CounterNested(n, frame[n], ev.msg)
           kvreq == IF o.frame.pc = "sync" /\ o.kvreq = Nothing
                    THEN KvWriteReq("sync", sync) ELSE o.kvreq
           kv == IF kvreq = Nothing THEN [store |-> seqkv] ELSE KvApply(seqkv, kvreq)
       IN
        /\ rx' = [rx EXCEPT ![n] = Tail(@)]
        /\ frame' = [frame EXCEPT ![n] = o.frame]
        /\ id' = [id EXCEPT ![n] = @ + o.used]
        /\ loop' = [loop EXCEPT ![n] = IF o.end = "run" THEN "running" ELSE o.end]
        /\ seqkv' = kv.store
        /\ net' = net \cup (IF kvreq = Nothing THEN {}
                            ELSE {KvReply("seq-kv", n, id[n], kv.reply)})
        /\ reqs' = Handed(IF o.reply = Nothing THEN {} ELSE {o.reply})
        /\ lost' = IF o.dropped THEN lost \cup {ev.msg.id} ELSE lost
    /\ UNCHANGED <<stdin_open, linkv, stash_event, allocated, bcast, gossip_waker, partition, storage,
                   cluster, timer>>

CounterClient ==
    /\ \E n \in Nodes :
        \/ \E d \in Deltas : ClientRequest(n, [type |-> "add", delta |-> d], MaxRequests)
        \/ ClientRequest(n, [type |-> "read"], MaxRequests)
    /\ UNCHANGED <<net, stdin_open, loop, id, frame, seqkv, linkv, stash_event, lost, allocated,
                   bcast, gossip_waker, partition, storage, cluster, timer>>

InitRuntime(N) ==
    /\ rx = [n \in N |-> <<>>]
    /\ net = {}
    /\ stdin_open = [n \in N |-> TRUE]
    /\ loop = [n \in N |-> "running"]
    /\ id = [n \in N |-> 1]
    /\ frame = [n \in N |-> Idle]
    /\ reqs = <<>>
    /\ lost = {}

\* The state of the workloads that are not running.
NoCounter == seqkv = <<>>
NoKafka == linkv = <<>> /\ stash_event = <<>> /\ allocated = {} /\ cluster = <<>>
NoBroadcast ==
    bcast = <<>> /\ gossip_waker = <<>> /\ partition = "none" /\ timer = <<>>
NoStorage == storage = <<>>

InitCounter ==
    /\ InitRuntime(Nodes)
    /\ seqkv = <<>>
    /\ NoKafka
    /\ NoBroadcast
    /\ NoStorage

\* The counter cluster while every stdin stays open.
NextCounter ==
    \/ CounterClient
    \/ \E n \in Nodes : Deliver(n)
    \/ \E n \in Nodes : CounterPop(n)

SpecCounter == InitCounter /\ [][NextCounter]_vars

\* The counter cluster when Maelstrom may close the stdin of a node.
NextCounterEOF ==
    \/ NextCounter
    \/ \E n \in Nodes : StdinEOF(n)

SpecCounterEOF == InitCounter /\ [][NextCounterEOF]_vars

(***************************************************************************)
(* Claims about the counter.                                               *)
(***************************************************************************)
Reads == {r \in 1 .. Len(reqs) : reqs[r].payload.type = "read" /\ Acked(r)}
ReadValue(r) == reqs[r].replies[1].payload.value

\* The sum of the deltas acknowledged before request r was issued.
Base(r) == SumDeltas({a \in reqs[r].after : reqs[a].payload.type = "add"})

\* C1: when the requests are adds that all returned add_ok, followed by one
\* read issued after the last add_ok, the read returns exactly the sum of
\* the deltas.
C1_ReadIsSumOfAcked ==
    \A r \in Reads :
        (/\ r = Len(reqs)
         /\ reqs[r].after = 1 .. r - 1
         /\ \A a \in 1 .. r - 1 : reqs[a].payload.type = "add")
            => ReadValue(r) = Base(r)

\* C2: a read never returns less than the sum of the deltas that were
\* acknowledged before the read was issued.
C2_ReadNotBelowAcked ==
    \A r \in Reads : ReadValue(r) >= Base(r)

\* C8: no client request is dropped by a node that pops it while it waits
\* for a seq-kv reply.
C8_NoRequestLost == lost = {}

\* C9: a step that fails does not end main_loop: the node keeps running.
C9_FailedStepKeepsNode == \A n \in Nodes : loop[n] # "err"

(***************************************************************************)
(* Multi-node Kafka on lin-kv (bin/multi-kafka.rs).                        *)
(*                                                                         *)
(* A string of lin-kv is a sequence of comma-separated tokens: the token   *)
(* [n |-> 5] is the text "5", the token [o |-> 3, v |-> 7] the text "3:7", *)
(* and <<>> is the empty string.                                           *)
(***************************************************************************)
KV_NAME == "lin-kv"
PREFIX_COMMIT == "commit"
PREFIX_LATEST == "latest"
PREFIX_ENTRY == "entry"
BATCH_SIZE == 20

\* init.node_ids, the same list at every node: the list of the init message.
node_ids == cluster

\* str::parse::<u64> on the topic keys and node id suffixes of the model.
ParseU64(str) ==
    CASE str = "0" -> 0
      [] str = "1" -> 1
      [] str = "2" -> 2
      [] OTHER -> None

\* &self.node_id[1..]
Suffix(n) ==
    CASE n = "n0" -> "0"
      [] n = "n1" -> "1"
      [] n = "n2" -> "2"
      [] OTHER -> ""

\* u64::to_string and String::parse::<u64> on lin-kv values.
ToStr(x) == << [n |-> x] >>
ParseValue(str) ==
    IF Len(str) = 1 /\ DOMAIN str[1] = {"n"} THEN str[1].n ELSE None

\* EntriesExt::append and EntriesExt::new_key.
append(entries, offset, value) == entries \o << [o |-> offset, v |-> value] >>
new_key(key, offset) ==
    LET start == offset - (offset % BATCH_SIZE) IN
    <<PREFIX_ENTRY, key, start, start + BATCH_SIZE>>

latest_key(key) == <<PREFIX_LATEST, key>>

\* The index in node_ids of the node a send for key is forwarded to by node
\* n, or None when n appends it itself (KafkaNode::step, the Send arm).
ProxyIdx(n, key) ==
    LET k == ParseU64(key)
        nid == ParseU64(Suffix(n))
    IN IF k # None /\ nid # None /\ k % Len(node_ids) # nid
       THEN k % Len(node_ids) ELSE None

\* The payloads a nested receive of LinKv puts on stash_event, and those the
\* loop of send_proxy_node puts there.
KvStashable == {"send", "poll", "send_ok", "commit_offsets", "list_committed_offsets",
                "forward_send"}
ProxyStashable == {"send", "poll", "commit_offsets", "list_committed_offsets"}

\* The main thread of a Kafka node: pc is "idle" in main_loop, "proxy" in the
\* loop of send_proxy_node, "kv" in the receive of LinKv::read or write.
\* reply is the reply step prepared for the request it was given, inl the
\* reply send_proxy_node prepared for the forward_send it services.
KFrame(pc, reply, inl, stage, key, value, offset) ==
    [pc |-> pc, reply |-> reply, inl |-> inl, stage |-> stage, key |-> key,
     value |-> value, offset |-> offset]

ProxyFrame(reply) == KFrame("proxy", reply, Nothing, "", "", None, None)

\* What one pop leaves behind; K0 is a pop that did nothing yet.
K0(n) ==
    [frame |-> frame[n], kvreq |-> Nothing, kvid |-> None, out |-> {}, used |-> 0,
     end |-> "run", stash |-> stash_event[n], inject |-> <<>>, alloc |-> {}]

KErr(b) == [b EXCEPT !.frame = Idle, !.end = "err"]
KPanic(b) == [b EXCEPT !.frame = Idle, !.end = "panic"]

\* A KV call: kv_message takes the next msg_id, the request is written and
\* the call waits in its receive.
KvCall(n, b, f, kvreq) ==
    [b EXCEPT !.frame = f, !.kvreq = kvreq, !.kvid = id[n] + b.used, !.used = b.used + 1]

\* LinKv::send up to its first receive: the read of latest_<key>.
SendStart(n, b, reply, inl, key, value) ==
    KvCall(n, b, KFrame("kv", reply, inl, "read_latest", key, value, None),
           KvReadReq(latest_key(key)))

IsSendOk(m) == m.payload.type = "send_ok"
NotSendOk(m) == m.payload.type # "send_ok"

\* LinKv::send returned offset to its caller.  In step the reply is sent
\* and the whole stash goes back on the queue; in send_proxy_node the
\* forward_send is answered, the stashed send_ok go back on the queue and
\* the loop waits again.
SendReturn(n, b, f, offset) ==
    IF f.inl = Nothing
    THEN [b EXCEPT !.frame = Idle,
                   !.out = {[f.reply EXCEPT !.payload = [type |-> "send_ok", offset |-> offset]]},
                   !.inject = b.stash,
                   !.stash = <<>>]
    ELSE [b EXCEPT !.frame = ProxyFrame(f.reply),
                   !.out = {[f.inl EXCEPT !.payload = [type |-> "send_ok", offset |-> offset]]},
                   !.inject = SelectSeq(b.stash, IsSendOk),
                   !.stash = SelectSeq(b.stash, NotSendOk)]

\* The offset LinKv::send allocates if every read of latest_<key> gave 0.
NextOffset_AlwaysZero(got) == 0

\* The offset LinKv::send allocates after it read got under latest_<key>:
\* read(..).parse::<u64>().map(|x| x + 1).unwrap_or(0); a key lin-kv does
\* not have (error 20) is read as the empty string.
NextOffset(got) == IF ParseValue(got) # None THEN ParseValue(got) + 1 ELSE 0

\* LinKv::send goes on after the KV call of f.stage returned got (the string
\* read, or <<>> after a write).
SendResume(n, b, f, got) ==
    CASE f.stage = "read_latest" ->
            LET offset == NextOffset(got) IN
            [KvCall(n, b, [f EXCEPT !.stage = "write_latest", !.offset = offset],
                    KvWriteReq(latest_key(f.key), ToStr(offset)))
                EXCEPT !.alloc = {[node |-> n, key |-> f.key, msg |-> f.value,
                                   offset |-> offset]}]
      [] f.stage = "write_latest" ->
            KvCall(n, b, [f EXCEPT !.stage = "read_entry"],
                   KvReadReq(new_key(f.key, f.offset)))
      [] f.stage = "read_entry" ->
            KvCall(n, b, [f EXCEPT !.stage = "write_entry"],
                   KvWriteReq(new_key(f.key, f.offset), append(got, f.offset, f.value)))
      [] f.stage = "write_entry" ->
            SendReturn(n, b, f, f.offset)

IsReadStage(stage) == stage \in {"read_latest", "read_entry", "poll_read", "list_read"}

\* The end of a step that is not a send: the reply is sent and the whole
\* stash goes back on the queue.
OpReturn(b, reply, payload) ==
    [b EXCEPT !.frame = Idle,
              !.out = {[reply EXCEPT !.payload = payload]},
              !.inject = b.stash,
              !.stash = <<>>]

\* The order in which a HashMap of a request is iterated; the maps of the
\* model have one key at most, so there is one order.
MapOrder(map) ==
    IF DOMAIN map = {} THEN <<>>
    ELSE LET k == CHOOSE x \in DOMAIN map : TRUE IN <<k>>

commit_key(key) == <<PREFIX_COMMIT, key>>

\* The position of the main thread inside poll, commit_offsets or
\* list_committed_offsets: todo are the keys still to do, its head the one
\* being done; result is the map built so far; in poll, start is the first
\* offset of the segment being read and found the entries of the key.
OpFrame(reply, stage, offsets, todo, result, start, found) ==
    [pc |-> "kv", reply |-> reply, inl |-> Nothing, stage |-> stage, offsets |-> offsets,
     todo |-> todo, result |-> result, start |-> start, found |-> found]

\* The pairs (o, v) of the entries of a segment that parse, in the order of
\* the string.
IsEntry(t) == DOMAIN t = {"o", "v"}
ParseEntries(str) ==
    LET kept == SelectSeq(str, IsEntry) IN [i \in 1 .. Len(kept) |-> <<kept[i].o, kept[i].v>>]

\* LinKv::poll and read_segment: the read of the segment of f.start for the
\* key at the head of f.todo, or the reply when no key is left.
PollNext(n, b, f) ==
    IF f.todo = <<>> THEN OpReturn(b, f.reply, [type |-> "poll_ok", msgs |-> f.result])
    ELSE KvCall(n, b, f, KvReadReq(new_key(Head(f.todo), f.start)))

PollStart(n, b, reply, offsets) ==
    LET todo == MapOrder(offsets)
        ofs == IF todo = <<>> THEN 0 ELSE offsets[Head(todo)]
    IN PollNext(n, b, OpFrame(reply, "poll_read", offsets, todo, <<>>,
                              ofs - (ofs % BATCH_SIZE), <<>>))

\* read_segment after the read of a segment returned got.
PollResume(n, b, f, got) ==
    LET key == Head(f.todo)
        ofs == f.offsets[key]
        AtLeast(e) == e[1] >= ofs
    IN
    IF got = <<>>
    THEN LET rest == Tail(f.todo)
             result == IF f.found = <<>> THEN f.result ELSE Put(f.result, key, f.found)
             next == IF rest = <<>> THEN 0 ELSE f.offsets[Head(rest)]
         IN PollNext(n, b, [f EXCEPT !.todo = rest, !.result = result, !.found = <<>>,
                                     !.start = next - (next % BATCH_SIZE)])
    ELSE PollNext(n, b, [f EXCEPT !.found = @ \o SelectSeq(ParseEntries(got), AtLeast),
                                  !.start = @ + BATCH_SIZE])

\* LinKv::commit_offsets: one write per key.
CommitNext(n, b, f) ==
    IF f.todo = <<>> THEN OpReturn(b, f.reply, [type |-> "commit_offsets_ok"])
    ELSE KvCall(n, b, f, KvWriteReq(commit_key(Head(f.todo)), ToStr(f.offsets[Head(f.todo)])))

CommitStart(n, b, reply, offsets) ==
    CommitNext(n, b, OpFrame(reply, "commit_write", offsets, MapOrder(offsets), <<>>, 0, <<>>))

CommitResume(n, b, f) == CommitNext(n, b, [f EXCEPT !.todo = Tail(@)])

\* LinKv::list_committed_offsets: one read per key, in the order of keys.
ListNext(n, b, f) ==
    IF f.todo = <<>>
    THEN OpReturn(b, f.reply, [type |-> "list_committed_offsets_ok", offsets |-> f.result])
    ELSE KvCall(n, b, f, KvReadReq(commit_key(Head(f.todo))))

ListStart(n, b, reply, keys) ==
    ListNext(n, b, OpFrame(reply, "list_read", <<>>, keys, <<>>, 0, <<>>))

\* The read of the key at the head of f.todo gave offset, or None when the
\* read failed (.ok()) or its value is no number (.parse().ok()).
ListResume(n, b, f, offset) ==
    ListNext(n, b, [f EXCEPT !.todo = Tail(@),
                             !.result = IF offset = None THEN @
                                        ELSE Put(@, Head(f.todo), offset)])

\* The caller of a KV call goes on after it returned Ok(got).
Resume(n, b, f, got) ==
    CASE f.stage = "poll_read" -> PollResume(n, b, f, got)
      [] f.stage = "commit_write" -> CommitResume(n, b, f)
      [] f.stage = "list_read" -> ListResume(n, b, f, ParseValue(got))
      [] OTHER -> SendResume(n, b, f, got)

\* The caller of a KV call goes on after it returned Err: the error ends the
\* step, but for list_committed_offsets, which drops it.
Failed(n, b, f) ==
    IF f.stage = "list_read" THEN ListResume(n, b, f, None) ELSE KErr(b)

\* The receive loop of LinKv::read and LinKv::write with message m popped;
\* late says whether the timeout has elapsed when the loop tests it.
KafkaNested(n, f, m, late) ==
    LET p == m.payload
        b == K0(n)
    IN
    IF IsReadStage(f.stage) /\ p.type = "read_ok" THEN Resume(n, b, f, p.value)
    ELSE IF IsReadStage(f.stage) /\ p.type = "error" /\ p.code = 20
         THEN Resume(n, b, f, <<>>)
    ELSE IF ~IsReadStage(f.stage) /\ p.type = "write_ok" THEN Resume(n, b, f, <<>>)
    ELSE IF p.type = "error" THEN Failed(n, b, f)
    ELSE IF p.type \in KvStashable
         THEN LET kept == [b EXCEPT !.stash = Append(b.stash, m)] IN
              IF late THEN Failed(n, kept, f) ELSE kept
    ELSE Failed(n, b, f)

\* send_proxy_node as it would be if a forward_send were stashed like the
\* client requests instead of being serviced inline.
KafkaProxy_StashForward(n, f, m) ==
    LET p == m.payload
        b == [K0(n) EXCEPT !.used = 1]
    IN
    CASE p.type = "send_ok" ->
            [b EXCEPT !.frame = Idle,
                      !.out = {[f.reply EXCEPT !.payload =
                                    [type |-> "send_ok", offset |-> p.offset]]},
                      !.inject = b.stash,
                      !.stash = <<>>]
      [] p.type \in ProxyStashable \cup {"forward_send"} ->
            [b EXCEPT !.stash = Append(b.stash, m)]
      [] OTHER -> KErr(b)

\* send_proxy_node as it would be if it dropped the owner's offset.
KafkaProxy_DropOffset(n, f, m) ==
    LET p == m.payload
        b == [K0(n) EXCEPT !.used = 1]
        reply == into_reply(m, id[n], p)
    IN
    CASE p.type = "send_ok" ->
            [b EXCEPT !.frame = Idle,
                      !.out = {[f.reply EXCEPT !.payload =
                                    [type |-> "send_ok", offset |-> 0]]},
                      !.inject = b.stash,
                      !.stash = <<>>]
      [] p.type = "forward_send" ->
            SendStart(n, b, f.reply, reply, p.key, p.msg)
      [] p.type \in ProxyStashable ->
            [b EXCEPT !.stash = Append(b.stash, m)]
      [] OTHER -> KErr(b)

\* The loop of send_proxy_node with message m popped.
KafkaProxy(n, f, m) ==
    LET p == m.payload
        b == [K0(n) EXCEPT !.used = 1]
        reply == into_reply(m, id[n], p)
    IN
    CASE p.type = "send_ok" ->
            [b EXCEPT !.frame = Idle,
                      !.out = {[f.reply EXCEPT !.payload =
                                    [type |-> "send_ok", offset |-> p.offset]]},
                      !.inject = b.stash,
                      !.stash = <<>>]
      [] p.type = "forward_send" ->
            SendStart(n, b, f.reply, reply, p.key, p.msg)
      [] p.type \in ProxyStashable ->
            [b EXCEPT !.stash = Append(b.stash, m)]
      [] OTHER -> KErr(b)

\* KafkaNode::step with the message m popped by main_loop; the last arm is
\* the one of the payloads that are replies.
KafkaStep(n, m) ==
    LET p == m.payload
        b == [K0(n) EXCEPT !.used = 1]
        reply == into_reply(m, id[n], p)
    IN
    CASE p.type = "forward_send" ->
            SendStart(n, b, reply, Nothing, p.key, p.msg)
      [] p.type = "send" ->
            IF ProxyIdx(n, p.key) # None
            THEN [b EXCEPT !.frame = ProxyFrame(reply),
                           !.out = {Message(n, node_ids[ProxyIdx(n, p.key) + 1], id[n] + 1,
                                            None, [type |-> "forward_send", key |-> p.key,
                                                   msg |-> p.msg])},
                           !.used = 2]
            ELSE SendStart(n, b, reply, Nothing, p.key, p.msg)
      [] p.type = "poll" -> PollStart(n, b, reply, p.offsets)
      [] p.type = "commit_offsets" -> CommitStart(n, b, reply, p.offsets)
      [] p.type = "list_committed_offsets" -> ListStart(n, b, reply, p.keys)
      [] p.type = "error" -> [b EXCEPT !.frame = Idle]
      [] OTHER -> KErr(b)

AsEvents(msgs) == [i \in 1 .. Len(msgs) |-> EventMessage(msgs[i])]

\* The main thread of a Kafka node pops one event.  lates are the answers
\* the timeout test of a nested receive may give.
KafkaPop(n, lates) ==
    /\ loop[n] = "running"
    /\ rx[n] # <<>>
    /\ LET ev == Head(rx[n]) IN
       \E late \in lates :
       LET o == IF ev.kind # "Message" THEN KPanic(K0(n))
                ELSE IF frame[n].pc = "idle" THEN KafkaStep(n, ev.msg)
                ELSE IF frame[n].pc = "proxy" THEN KafkaProxy(n, frame[n], ev.msg)
                ELSE KafkaNested(n, frame[n], ev.msg, late)
           kv == IF o.kvreq = Nothing THEN [store |-> linkv] ELSE KvApply(linkv, o.kvreq)
       IN
        /\ rx' = [rx EXCEPT ![n] = Tail(@) \o AsEvents(o.inject)]
        /\ frame' = [frame EXCEPT ![n] = o.frame]
        /\ id' = [id EXCEPT ![n] = @ + o.used]
        /\ loop' = [loop EXCEPT ![n] = IF o.end = "run" THEN "running" ELSE o.end]
        /\ stash_event' = [stash_event EXCEPT ![n] = o.stash]
        /\ linkv' = kv.store
        /\ net' = (net \cup ToNodes(o.out))
                      \cup (IF o.kvreq = Nothing THEN {}
                            ELSE {KvReply(KV_NAME, n, o.kvid, kv.reply)})
        /\ reqs' = Handed(o.out)
        /\ allocated' = allocated \cup o.alloc
    /\ UNCHANGED <<stdin_open, seqkv, lost, bcast, gossip_waker, partition, storage, cluster, timer>>

\* The topic keys the clients of the model use: one owned by each node and
\* one that is no number, which every node appends itself.
RoutedKeys == {"0", "1"}
LocalKeys == {"k"}

KafkaClient(keys, max) ==
    /\ \E n \in Nodes, key \in keys :
        ClientRequest(n, [type |-> "send", key |-> key, msg |-> Len(reqs) + 1], max)
    /\ UNCHANGED <<net, stdin_open, loop, id, frame, seqkv, linkv, stash_event, lost,
                   allocated, bcast, gossip_waker, partition, storage, cluster, timer>>

InitKafka ==
    /\ InitRuntime(Nodes)
    /\ NoCounter
    /\ linkv = <<>>
    /\ stash_event = [n \in Nodes |-> <<>>]
    /\ allocated = {}
    /\ NoBroadcast
    /\ NoStorage
    /\ cluster = <<"n0", "n1">>

\* The Kafka cluster while every stdin stays open; a lin-kv reply may take
\* longer than the timeout of the call that waits for it.
NextKafka ==
    \/ KafkaClient(RoutedKeys, MaxRequests)
    \/ \E n \in Nodes : Deliver(n)
    \/ \E n \in Nodes : KafkaPop(n, BOOLEAN)

SpecKafka == InitKafka /\ [][NextKafka]_vars

\* The cluster when lin-kv answers within the timeout of every call, the
\* network delivers and every thread that can run does.
NextKafkaLive ==
    \/ KafkaClient(RoutedKeys, MaxRequests)
    \/ \E n \in Nodes : Deliver(n)
    \/ \E n \in Nodes : KafkaPop(n, {FALSE})

FairKafka == \A n \in Nodes : WF_vars(Deliver(n)) /\ WF_vars(KafkaPop(n, {FALSE}))

SpecKafkaLive == InitKafka /\ [][NextKafkaLive]_vars /\ FairKafka

\* The same cluster with sends to a key that has no owner.
NextKafkaLocal ==
    \/ KafkaClient(LocalKeys, MaxLocalSends)
    \/ \E n \in Nodes : Deliver(n)
    \/ \E n \in Nodes : KafkaPop(n, {FALSE})

SpecKafkaLocal == InitKafka /\ [][NextKafkaLocal]_vars

(***************************************************************************)
(* Claims about the multi-node Kafka log.                                  *)
(***************************************************************************)
Sends == {r \in 1 .. Len(reqs) : reqs[r].payload.type = "send" /\ Acked(r)}
SendOffset(r) == reqs[r].replies[1].payload.offset

\* C3: for one key, a send issued after the send_ok of another send returns
\* a larger offset than that send did.
C3_OffsetsIncrease ==
    \A a \in Sends, b \in Sends :
        (reqs[a].payload.key = reqs[b].payload.key /\ a \in reqs[b].after)
            => SendOffset(b) > SendOffset(a)

\* A send that its node forwarded instead of appending it.
Forwarded(r) ==
    /\ reqs[r].payload.type = "send"
    /\ ProxyIdx(reqs[r].node, reqs[r].payload.key) # None
Owner(r) == node_ids[ProxyIdx(reqs[r].node, reqs[r].payload.key) + 1]

\* C5: the offset a non-owner returns for a forwarded send is the offset the
\* owner allocated for it, and the non-owner allocated none for it.
C5_ForwardedOffsetIsOwners ==
    \A r \in Sends :
        Forwarded(r) =>
            /\ \E a \in allocated :
                a.msg = r /\ a.node = Owner(r) /\ a.offset = SendOffset(r)
            /\ \A a \in allocated : a.msg = r => a.node # reqs[r].node

C5_Witness ==
    \E r \in Sends : Forwarded(r) /\ SendOffset(r) = 1

\* Node n is inside send_proxy_node: in its loop, or servicing a
\* forward_send inline.
InProxy(n) ==
    \/ frame[n].pc = "proxy"
    \/ frame[n].pc = "kv" /\ frame[n].inl # Nothing

\* Both nodes have forwarded a send to the other and wait for its send_ok.
MutualWait == \A n \in Nodes : InProxy(n)

AllAcked == \A r \in 1 .. Len(reqs) : Acked(r)

\* C4: when two nodes have forwarded to each other and both wait, both
\* forwards are serviced and every client gets its send_ok.
C4_MutualForwardCompletes == MutualWait ~> AllAcked

\* Both nodes wait, and one has stashed the other's send_ok while it
\* services the other's forward_send inline.
C4_Witness ==
    /\ MutualWait
    /\ \E n \in Nodes :
        /\ frame[n].pc = "kv"
        /\ \E i \in 1 .. Len(stash_event[n]) : stash_event[n][i].payload.type = "send_ok"

\* C7: whenever a step has ended, in whatever way, stash_event is empty:
\* everything popped by a nested receive is back on the queue.
C7_StashReinjected ==
    \A n \in Nodes : frame[n].pc = "idle" => stash_event[n] = <<>>

(***************************************************************************)
(* Broadcast (bin/broadcast.rs): every node keeps the set of values it has *)
(* seen and what it knows each other node has seen; a timer thread injects *)
(* a Gossip event at least every 300 ms, and on it the node sends every    *)
(* neighbor the values that neighbor is not known to have.                 *)
(***************************************************************************)
MaxValue == 1
MaxTicksQueued == 1
MaxQueue == 1
MaxId == 3
IdHorizon == 1
MaxBroadcastRequests == 3

Values == 1 .. MaxValue

EventInjected == [kind |-> "Injected"]

Min(a, b) == IF a < b THEN a ELSE b
Max(a, b) == IF a > b THEN a ELSE b
Range(seq) == {seq[i] : i \in 1 .. Len(seq)}

\* The orders in which an iterator over a HashMap may yield the elements of S.
Orders(S) ==
    {o \in [1 .. Cardinality(S) -> S] : \A i, j \in 1 .. Cardinality(S) : o[i] = o[j] => i = j}

\* The subsets of S a filter with rng.gen_ratio(num, |S|) may keep: each
\* element is kept with probability num / |S|.
Sampled(S, num) ==
    IF S = {} THEN {{}}
    ELSE IF num >= Cardinality(S) THEN {S}
    ELSE IF num = 0 THEN {{}}
    ELSE SUBSET S

\* BroadcastNode as from_init builds it.
NewBroadcastNode ==
    [messages |-> {}, neighborhood |-> <<>>, known |-> [p \in Nodes |-> {}],
     gossip_delta |-> 0]

\* What one step leaves behind: the node, the messages written, the msg_ids
\* used, how the step ended and whether the gossip timer was signalled.
B0(n) == [node |-> bcast[n], out |-> {}, used |-> 0, end |-> "run", wake |-> FALSE]
BPanic(b) == [b EXCEPT !.end = "panic"]

\* The neighborhoods the Topology arm may compute: the node's own list, then
\* the keys that are neither the node nor in the list, each kept with ratio
\* min(8, r) / r; shrink_to only lowers the capacity of the Vec.
Neighborhoods(n, topology) ==
    LET seeds == topology[n]
        rest == (DOMAIN topology \ {n}) \ Range(seeds)
    IN {seeds \o o : o \in UNION {Orders(kept) : kept \in Sampled(rest, Min(8, Cardinality(rest)))}}

\* The two halves of the partition of messages in gossip.
AlreadyKnown(st, p) == st.messages \cap st.known[p]
NotifyOf_OnlyKnown(st, p) == {}
NotifyOf(st, p) == st.messages \ st.known[p]

\* The extras gossip adds for neighbor p.
Extras(st, p) ==
    LET len == Cardinality(AlreadyKnown(st, p)) IN
    Sampled(AlreadyKnown(st, p), Max(Min(30, len), len \div 3))

\* BroadcastNode::gossip: one message to every neighbor, in order; indexing
\* known with a neighbor that is no node of the cluster panics.
gossip(n) ==
    LET st == bcast[n]
        nb == st.neighborhood
        bad == {i \in 1 .. Len(nb) : nb[i] \notin DOMAIN st.known}
        last == IF bad = {} THEN Len(nb)
                ELSE (CHOOSE i \in bad : \A j \in bad : i <= j) - 1
    IN
    {[B0(n) EXCEPT !.out = {Message(n, nb[i], None, None,
                                    [type |-> "gossip",
                                     seen |-> NotifyOf(st, nb[i]) \cup ex[i]]) : i \in 1 .. last},
                   !.end = IF bad = {} THEN "run" ELSE "panic"] :
        ex \in {e \in [1 .. last -> SUBSET st.messages] :
                    \A i \in 1 .. last : e[i] \in Extras(st, nb[i])}}

\* The Topology arm as it would be if gen_ratio were called with the number
\* of remaining keys also when no key remains: a ratio of 0 / 0 panics.
TopologyPanics_NoneLeft(n, topology) ==
    \/ n \notin DOMAIN topology
    \/ (DOMAIN topology \ {n}) \ Range(topology[n]) = {}

\* The Topology arm panics when the map has no list for the node; gen_ratio
\* is called once for each remaining key, so never with none.
TopologyPanics(n, topology) == n \notin DOMAIN topology

\* The merge of a gossip as it would be if it added a value of its own.
ExtendMessages_Invents(messages, seen) == messages \cup seen \cup {MaxValue}

\* The Gossip arm as it would be if it did not take the values seen.
ExtendMessages_Skip(messages, seen) == messages

\* messages.extend(seen) of the Gossip arm.
ExtendMessages(messages, seen) == messages \cup seen

\* The test of the Gossip arm as it would be with > for >=.
Wakes_OnlyAbove(delta, gossip_delta) == delta > gossip_delta

\* The test of the Gossip arm: the gossip added delta values to messages.
Wakes(delta, gossip_delta) == delta >= gossip_delta

\* BroadcastNode::step with a message: the outcomes it may have.
BroadcastStep(n, m) ==
    LET st == bcast[n]
        p == m.payload
        b == [B0(n) EXCEPT !.used = 1]
        reply == into_reply(m, id[n], p)
    IN
    CASE p.type = "broadcast" ->
            {[b EXCEPT !.node.messages = @ \cup {p.message},
                       !.out = {[reply EXCEPT !.payload = [type |-> "broadcast_ok"]]}]}
      [] p.type = "read" ->
            {[b EXCEPT !.out = {[reply EXCEPT !.payload =
                                    [type |-> "read_ok", messages |-> st.messages]]}]}
      [] p.type = "topology" ->
            IF TopologyPanics(n, p.topology) THEN {BPanic(b)}
            ELSE {[b EXCEPT !.node.neighborhood = nb,
                            !.out = {[reply EXCEPT !.payload = [type |-> "topology_ok"]]}] :
                    nb \in Neighborhoods(n, p.topology)}
      [] p.type = "gossip" ->
            IF m.src \notin DOMAIN st.known THEN {BPanic(b)}
            ELSE LET messages == ExtendMessages(st.messages, p.seen)
                     delta == Cardinality(messages) - Cardinality(st.messages)
                 IN {[b EXCEPT !.node.known[m.src] = @ \cup p.seen,
                               !.node.messages = messages,
                               !.node.gossip_delta = IF Wakes(delta, @) THEN delta ELSE @,
                               !.wake = Wakes(delta, st.gossip_delta)]}
      [] OTHER -> {b}

\* The network partition of the model cuts n0 off from the other node.
Island == {"n0"}
Crosses(m) == (m.src \in Island) # (m.dst \in Island)
Carried(out) == {m \in ToNodes(out) : partition = "cut" => ~Crosses(m)}

\* The main thread of a broadcast node pops one event and steps on it.  The
\* msg_id counter is bounded: when saturate is FALSE the node stops when the
\* counter is MaxId; when it is TRUE the node goes on for ever and the
\* counter stays at IdHorizon, so that the msg_ids from IdHorizon on are not
\* told apart (broadcast.rs uses the counter to number replies and for
\* nothing else).
BroadcastPop(n, saturate) ==
    /\ loop[n] = "running"
    /\ rx[n] # <<>>
    /\ saturate \/ id[n] < MaxId
    /\ LET ev == Head(rx[n]) IN
       \E o \in (CASE ev.kind = "Message" -> BroadcastStep(n, ev.msg)
                   [] ev.kind = "Injected" -> gossip(n)
                   [] ev.kind = "EOF" -> {B0(n)}) :
        /\ rx' = [rx EXCEPT ![n] = Tail(@)]
        /\ bcast' = [bcast EXCEPT ![n] = o.node]
        /\ id' = [id EXCEPT ![n] = Min(@ + o.used, IF saturate THEN IdHorizon ELSE MaxId)]
        /\ loop' = [loop EXCEPT ![n] = IF o.end = "run" THEN "running" ELSE o.end]
        /\ gossip_waker' = [gossip_waker EXCEPT ![n] = @ \/ o.wake]
        /\ net' = net \cup Carried(o.out)
        /\ reqs' = Handed(o.out)
    /\ UNCHANGED <<stdin_open, frame, seqkv, linkv, stash_event, lost, allocated, partition, storage,
                   cluster, timer>>

\* The timer thread of from_init: wait_timeout returns because the node
\* signalled or because 300 ms went by; the flag is cleared and a Gossip
\* event is injected.  The thread keeps its sender for as long as it runs.
QueuedTicks(n) == Cardinality({i \in 1 .. Len(rx[n]) : rx[n][i].kind = "Injected"})

Tick(n) ==
    /\ loop[n] = "running"
    /\ QueuedTicks(n) < MaxTicksQueued
    /\ gossip_waker' = [gossip_waker EXCEPT ![n] = FALSE]
    /\ rx' = [rx EXCEPT ![n] = Append(@, EventInjected)]
    /\ UNCHANGED <<net, stdin_open, loop, id, frame, seqkv, linkv, stash_event, reqs, lost,
                   allocated, bcast, partition, storage, cluster, timer>>

\* The senders of the channel of node n that are alive: the reader thread's
\* until end of input, and the timer thread's.  rx.recv() fails, and
\* main_loop returns Ok, only when none is left.
Senders(n) == IF stdin_open[n] THEN 2 ELSE 1

\* The network is cut, and what is in flight across the cut is lost.
Cut ==
    /\ partition = "none"
    /\ partition' = "cut"
    /\ net' = {m \in net : ~Crosses(m)}
    /\ UNCHANGED <<rx, stdin_open, loop, id, frame, seqkv, linkv, stash_event, reqs, lost,
                   allocated, bcast, gossip_waker, storage, cluster, timer>>

Heal ==
    /\ partition = "cut"
    /\ partition' = "healed"
    /\ UNCHANGED <<rx, net, stdin_open, loop, id, frame, seqkv, linkv, stash_event, reqs, lost,
                   allocated, bcast, gossip_waker, storage, cluster, timer>>

\* The topologies Maelstrom hands out in the model: a line, and one that
\* names no neighbor.
TopologyLine == [n \in Nodes |-> IF n = "n0" THEN <<"n1">> ELSE <<"n0">>]
TopologyBare == [n \in Nodes |-> <<>>]

HasTopology(n) ==
    \E r \in 1 .. Len(reqs) : reqs[r].node = n /\ reqs[r].payload.type = "topology"

\* The reader thread of a broadcast node, with a bound on the messages that
\* wait in the queue.
QueuedMessages(n) == Cardinality({i \in 1 .. Len(rx[n]) : rx[n][i].kind = "Message"})

BroadcastDeliver(n) == QueuedMessages(n) < MaxQueue /\ Deliver(n)

ClientOnly ==
    UNCHANGED <<net, stdin_open, loop, id, frame, seqkv, linkv, stash_event, lost, allocated,
                bcast, gossip_waker, partition, storage, cluster, timer>>

\* Maelstrom sends every node its topology once.
TopologyClient(topologies, max) ==
    /\ \E n \in Nodes, t \in topologies :
        /\ ~HasTopology(n)
        /\ QueuedMessages(n) < MaxQueue
        /\ ClientRequest(n, [type |-> "topology", topology |-> t], max)
    /\ ClientOnly

BroadcastClient(max) ==
    /\ \E n \in Nodes, v \in Values :
        /\ QueuedMessages(n) < MaxQueue
        /\ ClientRequest(n, [type |-> "broadcast", message |-> v], max)
    /\ ClientOnly

ReadClient(max) ==
    /\ \E n \in Nodes :
        /\ QueuedMessages(n) < MaxQueue
        /\ ClientRequest(n, [type |-> "read"], max)
    /\ ClientOnly

InitBroadcast ==
    /\ InitRuntime(Nodes)
    /\ NoCounter
    /\ NoKafka
    /\ bcast = [n \in Nodes |-> NewBroadcastNode]
    /\ gossip_waker = [n \in Nodes |-> FALSE]
    /\ timer = [n \in Nodes |-> "wait"]
    /\ partition = "none"
    /\ NoStorage

\* The broadcast cluster when Maelstrom may close the stdin of a node.
NextBroadcast ==
    \/ TopologyClient({TopologyLine, TopologyBare}, MaxRequests)
    \/ BroadcastClient(MaxRequests)
    \/ ReadClient(MaxRequests)
    \/ \E n \in Nodes : BroadcastDeliver(n)
    \/ \E n \in Nodes : StdinEOF(n)
    \/ \E n \in Nodes : Tick(n)
    \/ \E n \in Nodes : BroadcastPop(n, FALSE)

SpecBroadcast == InitBroadcast /\ [][NextBroadcast]_vars

\* The cluster while every stdin stays open, with a partition that heals,
\* a network that delivers and threads that run.
NextBroadcastLive ==
    \/ TopologyClient({TopologyLine}, MaxBroadcastRequests)
    \/ BroadcastClient(MaxBroadcastRequests)
    \/ \E n \in Nodes : BroadcastDeliver(n)
    \/ \E n \in Nodes : Tick(n)
    \/ \E n \in Nodes : BroadcastPop(n, TRUE)
    \/ Cut
    \/ Heal

FairBroadcast ==
    /\ \A n \in Nodes : WF_vars(BroadcastDeliver(n)) /\ WF_vars(Tick(n)) /\ WF_vars(BroadcastPop(n, TRUE))
    /\ WF_vars(Heal)

SpecBroadcastLive == InitBroadcast /\ [][NextBroadcastLive]_vars /\ FairBroadcast

(***************************************************************************)
(* Claims about the broadcast and about the end of input.                  *)
(***************************************************************************)
TopologyDone ==
    \A n \in Nodes :
        \E r \in 1 .. Len(reqs) :
            reqs[r].node = n /\ reqs[r].payload.type = "topology" /\ Acked(r)

Accepted(m) == \E n \in Nodes : m \in bcast[n].messages
Everywhere(m) == \A n \in Nodes : m \in bcast[n].messages

\* C6: once every node has its topology, a value some node has accepted is
\* eventually in the messages of every node, also when the network was cut
\* for a while.
C6_EventualDelivery ==
    \A m \in Values : (TopologyDone /\ Accepted(m)) ~> Everywhere(m)

\* A value accepted by the node that was cut off has reached every node
\* after the partition healed.
C6_Witness ==
    /\ partition = "healed"
    /\ TopologyDone
    /\ \E r \in 1 .. Len(reqs) :
        /\ reqs[r].payload.type = "broadcast"
        /\ reqs[r].node \in Island
        /\ Everywhere(reqs[r].payload.message)

\* Node n has popped the EOF its reader thread enqueued.
EOFHandled(n) ==
    /\ ~stdin_open[n]
    /\ \A i \in 1 .. Len(rx[n]) : rx[n][i].kind # "EOF"

\* C10: a node that has handled EOF has returned Ok from main_loop, or is
\* about to: it still runs and no sender of its channel is left.
C10_EOFTerminates ==
    \A n \in DOMAIN loop :
        EOFHandled(n) =>
            \/ loop[n] = "ok"
            \/ loop[n] = "running" /\ Senders(n) = 0

(***************************************************************************)
(* The Kafka cluster when a reply of lin-kv may never arrive.              *)
(***************************************************************************)
\* Maelstrom loses a reply of lin-kv.
LoseReply ==
    /\ \E m \in net :
        /\ m.src = KV_NAME
        /\ net' = net \ {m}
    /\ UNCHANGED <<rx, stdin_open, loop, id, frame, seqkv, linkv, stash_event, reqs, lost,
                   allocated, bcast, gossip_waker, partition, storage, cluster, timer>>

NextKafkaLossy ==
    \/ KafkaClient(RoutedKeys, MaxRequests)
    \/ \E n \in Nodes : Deliver(n)
    \/ \E n \in Nodes : KafkaPop(n, BOOLEAN)
    \/ LoseReply

FairKafkaLossy == \A n \in Nodes : WF_vars(Deliver(n)) /\ WF_vars(KafkaPop(n, BOOLEAN))

SpecKafkaLossy == InitKafka /\ [][NextKafkaLossy]_vars /\ FairKafkaLossy

SendStages == {"read_latest", "write_latest", "read_entry", "write_entry"}

\* Node n waits in the receive of the KV call of stage s.
InKvCall(n, s) == frame[n].pc = "kv" /\ frame[n].stage = s

\* C11: a node that waits in a KV call leaves the call, with the reply or
\* with a timeout error, also when the reply never arrives and nothing else
\* arrives on the queue.
C11_KvCallEnds ==
    \A n \in Nodes : \A s \in SendStages : InKvCall(n, s) ~> ~InKvCall(n, s)

(***************************************************************************)
(* The Kafka cluster with poll, commit_offsets and list_committed_offsets. *)
(***************************************************************************)
MaxPollRequests == 3
MaxPollOffset == 1

PollClient(keys, max) ==
    /\ \E n \in Nodes, key \in keys, o \in 0 .. MaxPollOffset :
        ClientRequest(n, [type |-> "poll", offsets |-> [k \in {key} |-> o]], max)
    /\ UNCHANGED <<net, stdin_open, loop, id, frame, seqkv, linkv, stash_event, lost,
                   allocated, bcast, gossip_waker, partition, storage, cluster, timer>>

\* Sends and polls for a key that has no owner, lin-kv answering in time.
NextKafkaPoll ==
    \/ KafkaClient(LocalKeys, MaxPollRequests)
    \/ PollClient(LocalKeys, MaxPollRequests)
    \/ \E n \in Nodes : Deliver(n)
    \/ \E n \in Nodes : KafkaPop(n, {FALSE})

SpecKafkaPoll == InitKafka /\ [][NextKafkaPoll]_vars

Polls == {r \in 1 .. Len(reqs) : reqs[r].payload.type = "poll" /\ Acked(r)}
PollMsgs(r) == reqs[r].replies[1].payload.msgs

\* C16: the list a poll returns for a key holds only offsets from the
\* requested one on, in strictly ascending order, each with the value that
\* was sent at that offset.
C16_PollEntries ==
    \A r \in Polls :
        \A k \in DOMAIN PollMsgs(r) :
            LET es == PollMsgs(r)[k]
                from == reqs[r].payload.offsets[k]
            IN
            /\ \A i \in 1 .. Len(es) : es[i][1] >= from
            /\ \A i, j \in 1 .. Len(es) : i < j => es[i][1] < es[j][1]
            /\ \A i \in 1 .. Len(es) :
                \E a \in allocated : a.key = k /\ a.offset = es[i][1] /\ a.msg = es[i][2]

MaxCommitOffset == 1

\* The keys the clients commit, and the key lists they ask for.
CommitKeys == {"a"}
ListKeys == {<<"a">>, <<"a", "b">>}

CommitClient(max) ==
    /\ \E n \in Nodes, key \in CommitKeys, o \in 0 .. MaxCommitOffset :
        ClientRequest(n, [type |-> "commit_offsets", offsets |-> [k \in {key} |-> o]], max)
    /\ UNCHANGED <<net, stdin_open, loop, id, frame, seqkv, linkv, stash_event, lost,
                   allocated, bcast, gossip_waker, partition, storage, cluster, timer>>

ListClient(max) ==
    /\ \E n \in Nodes, keys \in ListKeys :
        ClientRequest(n, [type |-> "list_committed_offsets", keys |-> keys], max)
    /\ UNCHANGED <<net, stdin_open, loop, id, frame, seqkv, linkv, stash_event, lost,
                   allocated, bcast, gossip_waker, partition, storage, cluster, timer>>

\* Commits and lists; a lin-kv reply may take longer than the timeout of the
\* call that waits for it.
NextKafkaCommit ==
    \/ CommitClient(MaxRequests)
    \/ ListClient(MaxRequests)
    \/ \E n \in Nodes : Deliver(n)
    \/ \E n \in Nodes : KafkaPop(n, BOOLEAN)

SpecKafkaCommit == InitKafka /\ [][NextKafkaCommit]_vars

Lists == {r \in 1 .. Len(reqs) : reqs[r].payload.type = "list_committed_offsets" /\ Acked(r)}
ListOffsets(r) == reqs[r].replies[1].payload.offsets

\* The commit requests for key k.
Commits(k) ==
    {c \in 1 .. Len(reqs) :
        reqs[c].payload.type = "commit_offsets" /\ k \in DOMAIN reqs[c].payload.offsets}

\* C12: an offset a list returns for a key was read for that key: some
\* commit request wrote it for that key.  A reply that came too late for the
\* read of one key is not taken as the reply of the read of another.
C12_LateReplyDiscarded ==
    \A r \in Lists :
        \A k \in DOMAIN ListOffsets(r) :
            \E c \in Commits(k) : reqs[c].payload.offsets[k] = ListOffsets(r)[k]

\* The commits for k were all acknowledged before list r was issued, one
\* after the other, or issued after list r was answered.
Settled(r, k) ==
    /\ \A c \in Commits(k) : IF c < r THEN c \in reqs[r].after ELSE r \in reqs[c].after
    /\ \A c, d \in Commits(k) : c < d /\ d < r => c \in reqs[d].after

\* C17: a list issued after the commits for k were acknowledged returns for
\* k the offset of the last of them, and no entry for a key nobody committed.
C17_ListReturnsLastCommit ==
    \A r \in Lists :
        \A i \in 1 .. Len(reqs[r].payload.keys) :
            LET k == reqs[r].payload.keys[i]
                before == {c \in Commits(k) : c < r}
            IN
            Settled(r, k) =>
                IF before = {} THEN k \notin DOMAIN ListOffsets(r)
                ELSE LET last == CHOOSE c \in before : \A d \in before : d <= c IN
                     /\ k \in DOMAIN ListOffsets(r)
                     /\ ListOffsets(r)[k] = reqs[last].payload.offsets[k]


(***************************************************************************)
(* Claims about the headers of the messages a node writes.                 *)
(***************************************************************************)
\* The reply m answers request r of the ledger: in_reply_to is the msg_id of
\* the request, src its dest and dest its src.
Answers(m, r) ==
    /\ m.in_reply_to = r
    /\ m.src = reqs[r].node
    /\ m.dst = Client(r)

\* The send_ok a node wrote for a forward_send: the node that forwarded
\* took msg_id reply.id for its reply and the next one for the forward_send.
AnswersForward(m) ==
    /\ m.src \in Nodes \ {m.dst}
    /\ InProxy(m.dst) => m.in_reply_to = frame[m.dst].reply.id + 1

\* C13: every reply to a request has in_reply_to equal to the msg_id of the
\* request, src equal to its dest and dest equal to its src: the replies the
\* clients got, after nested KV calls, forwards and stashes, and the send_ok
\* a node wrote for a forward_send.
C13_RepliesMatchRequests ==
    /\ \A r \in 1 .. Len(reqs) :
        \A i \in 1 .. Len(reqs[r].replies) : Answers(reqs[r].replies[i], r)
    /\ \A m \in net : (m.dst \in Nodes /\ m.payload.type = "send_ok") => AnswersForward(m)

\* A forwarded send and a send its node appended itself were both answered.
C13_Witness ==
    /\ \E r \in Sends : Forwarded(r)
    /\ \E r \in Sends : ~Forwarded(r)


\* C14: every message a node has written carries a msg_id (and the msg_ids
\* of one node increase in the order of writing, from 1); here for the
\* messages of the nodes that are on their way, gossip among them.
C14_EveryMessageHasId ==
    \A m \in net : m.src \in Nodes => m.id # None


(***************************************************************************)
(* The start of main_loop (lib.rs): the first line of stdin is read and    *)
(* answered before the node is built and the reader thread started.  The   *)
(* counter is the workload that runs afterwards.                           *)
(***************************************************************************)
MaxBootRequests == 4

\* The payloads a first line may carry, and no line at all.
FirstLines == {[type |-> "init"], [type |-> "init_ok"], [type |-> "add", delta |-> 1]}

\* init_reply as it would be if it took msg_id 1.
init_reply_IdOne(m) ==
    Message(m.dst, m.src, 1, m.id, [type |-> "init_ok"])

\* The reply main_loop builds for the init message m.
init_reply(m) ==
    Message(m.dst, m.src, 0, m.id, [type |-> "init_ok"])

\* How main_loop goes on after a first line with payload p: an init is
\* answered and the loop entered; init_ok panics; anything else is no
\* Message<InitPayload> and from_str fails.
AfterFirstLine(p) ==
    CASE p.type = "init" -> "running"
      [] p.type = "init_ok" -> "panic"
      [] OTHER -> "err"

\* main_loop up to the loop, with the first line of stdin.
MainInit(n) ==
    /\ loop[n] = "init"
    /\ Len(reqs) < MaxBootRequests
    /\ \E p \in FirstLines :
        LET r == Len(reqs) + 1
            m == Message(Client(r), n, r, None, p)
        IN
        /\ loop' = [loop EXCEPT ![n] = AfterFirstLine(p)]
        /\ reqs' = Append(reqs, [node |-> n, payload |-> p,
                                 replies |-> IF p.type = "init" THEN <<init_reply(m)>>
                                             ELSE <<>>,
                                 after |-> AckedReqs])
    /\ UNCHANGED <<rx, net, stdin_open, id, frame, seqkv, linkv, stash_event, lost, allocated,
                   bcast, gossip_waker, partition, storage, cluster, timer>>

\* main_loop when stdin ends before the first line: expect panics.
MainInitEOF(n) ==
    /\ loop[n] = "init"
    /\ stdin_open[n]
    /\ stdin_open' = [stdin_open EXCEPT ![n] = FALSE]
    /\ loop' = [loop EXCEPT ![n] = "panic"]
    /\ UNCHANGED <<rx, net, id, frame, seqkv, linkv, stash_event, reqs, lost, allocated,
                   bcast, gossip_waker, partition, storage, cluster, timer>>

BootClient ==
    /\ \E n \in Nodes :
        \/ \E d \in Deltas : ClientRequest(n, [type |-> "add", delta |-> d], MaxBootRequests)
        \/ ClientRequest(n, [type |-> "read"], MaxBootRequests)
    /\ UNCHANGED <<net, stdin_open, loop, id, frame, seqkv, linkv, stash_event, lost, allocated,
                   bcast, gossip_waker, partition, storage, cluster, timer>>

InitBoot ==
    /\ rx = [n \in Nodes |-> <<>>]
    /\ net = {}
    /\ stdin_open = [n \in Nodes |-> TRUE]
    /\ loop = [n \in Nodes |-> "init"]
    /\ id = [n \in Nodes |-> 1]
    /\ frame = [n \in Nodes |-> Idle]
    /\ reqs = <<>>
    /\ lost = {}
    /\ seqkv = <<>>
    /\ NoKafka
    /\ NoBroadcast
    /\ NoStorage

NextBoot ==
    \/ \E n \in Nodes : MainInit(n)
    \/ \E n \in Nodes : MainInitEOF(n)
    \/ BootClient
    \/ \E n \in Nodes : Deliver(n)
    \/ \E n \in Nodes : CounterPop(n)

SpecBoot == InitBoot /\ [][NextBoot]_vars

\* The lines node n was given, in the order of the ledger, and the messages
\* it has written that are still to be seen.
LinesOf(n) == {r \in 1 .. Len(reqs) : reqs[r].node = n}
FirstLine(n) == CHOOSE r \in LinesOf(n) : \A q \in LinesOf(n) : r <= q
Wrote(n) ==
    {m \in net : m.src = n}
        \cup {reqs[r].replies[1] : r \in {q \in LinesOf(n) : Acked(q)}}

\* No handler of node n has run: nothing was dispatched, written or counted.
Untouched(n) ==
    /\ Wrote(n) = {}
    /\ rx[n] = <<>>
    /\ id[n] = 1
    /\ frame[n] = Idle
    /\ \A m \in net : m.dst # n

\* C15: the first output of a node is the reply to init: init_ok with msg_id
\* 0, in_reply_to the msg_id of the init and src and dest swapped, written
\* before any handler runs; a node whose first line is not init ends without
\* dispatching anything.
C15_InitReplyFirst ==
    /\ [](\A n \in Nodes :
            IF loop[n] = "init" \/ LinesOf(n) = {} THEN Untouched(n)
            ELSE LET r == FirstLine(n) IN
                 IF reqs[r].payload.type = "init"
                 THEN reqs[r].replies =
                        <<Message(n, Client(r), 0, r, [type |-> "init_ok"])>>
                 ELSE Untouched(n) /\ loop[n] \in {"err", "panic"})
    /\ [][\A n \in Nodes :
            (Wrote(n) = {} /\ Wrote(n)' # {}) =>
                \E r \in LinesOf(n)' :
                    Wrote(n)' = {Message(n, Client(r), 0, r, [type |-> "init_ok"])}]_vars

\* One node has answered its init and then an add of a client; the other
\* was given something else first and has ended.
C15_Witness ==
    \E n \in Nodes, k \in Nodes :
        /\ \E r \in LinesOf(n) : reqs[r].payload.type = "add" /\ Acked(r)
        /\ LinesOf(k) # {}
        /\ reqs[FirstLine(k)].payload.type = "add"
        /\ loop[k] = "err"


(***************************************************************************)
(* The single-node Kafka log (bin/single-kafka.rs): the records are kept   *)
(* in one block of bytes, and the offset of a record is the position of    *)
(* its first byte in the block.  A record of the model is the three fields *)
(* of its bytes: length, offset and value.                                 *)
(***************************************************************************)
MaxSingleRequests == 3

U32_LEN == 4
U64_LEN == 8

SingleNodes == {"n0"}
SingleKeys == {"k1", "k2"}
SingleMsgs == {100, 200}

\* KafkaStorage as from_init builds it.
NewStorage ==
    [data_block |-> <<>>, topic_offsets |-> <<>>, topic_committed_offsets |-> <<>>,
     current_offset |-> 0]

\* The number of bytes of a block of records.
RECURSIVE BlockLen(_)
BlockLen(block) == IF block = <<>> THEN 0 ELSE Head(block).length + BlockLen(Tail(block))

\* KafkaStorage::send as it would be if current_offset advanced by the bytes
\* of the record without those of its length.
send_NoLengthPrefix(st, key, value) ==
    LET offset == st.current_offset
        record_length == (U64_LEN + U64_LEN) + U32_LEN
        queue == IF key \in DOMAIN st.topic_offsets THEN st.topic_offsets[key] ELSE <<>>
    IN [storage |-> [st EXCEPT !.data_block = Append(@, [length |-> record_length,
                                                         offset |-> offset, value |-> value]),
                               !.topic_offsets = Put(@, key, Append(queue, offset)),
                               !.current_offset = @ + (U64_LEN + U64_LEN)],
        payload |-> [type |-> "send_ok", offset |-> offset],
        end |-> "run"]

\* KafkaStorage::send: the record is the offset and the value, each a u64,
\* after its length, a u32; current_offset advances by the bytes written.
send(st, key, value) ==
    LET offset == st.current_offset
        record_length == (U64_LEN + U64_LEN) + U32_LEN
        queue == IF key \in DOMAIN st.topic_offsets THEN st.topic_offsets[key] ELSE <<>>
    IN [storage |-> [st EXCEPT !.data_block = Append(@, [length |-> record_length,
                                                         offset |-> offset, value |-> value]),
                               !.topic_offsets = Put(@, key, Append(queue, offset)),
                               !.current_offset = @ + record_length],
        payload |-> [type |-> "send_ok", offset |-> offset],
        end |-> "run"]

\* KafkaStorage::parse_records: the records of the block are walked from its
\* start and the one whose offset is the next of offsets is taken.
RECURSIVE parse_records(_, _, _)
parse_records(data_block, offsets, result) ==
    IF data_block = <<>> THEN result
    ELSE LET rec == Head(data_block) IN
         IF rec.offset # offsets[Len(result) + 1]
         THEN parse_records(Tail(data_block), offsets, result)
         ELSE LET more == Append(result, <<rec.offset, rec.value>>) IN
              IF Len(offsets) = Len(more) THEN more
              ELSE parse_records(Tail(data_block), offsets, more)

\* The index as it would be if an offset equal to the one asked for were
\* passed over.
SearchIndex_PastEqual(queue, offset) ==
    Cardinality({i \in 1 .. Len(queue) : queue[i] <= offset})

\* The index binary_search gives for offset in the ascending queue: where it
\* is, or where it would be.
SearchIndex(queue, offset) == Cardinality({i \in 1 .. Len(queue) : queue[i] < offset})

\* KafkaStorage::poll for the keys of offsets in the order todo.
RECURSIVE poll(_, _, _, _)
poll(st, offsets, todo, result) ==
    IF BlockLen(st.data_block) <= U32_LEN \/ todo = <<>>
    THEN [storage |-> st, payload |-> [type |-> "poll_ok", msgs |-> result], end |-> "run"]
    ELSE LET k == Head(todo)
             queue == IF k \in DOMAIN st.topic_offsets THEN st.topic_offsets[k] ELSE <<>>
             index == SearchIndex(queue, offsets[k])
             values == parse_records(st.data_block, SubSeq(queue, index + 1, Len(queue)), <<>>)
         IN IF index >= Len(queue) THEN poll(st, offsets, Tail(todo), result)
            ELSE IF values = <<>> THEN [storage |-> st, payload |-> Nothing, end |-> "err"]
            ELSE poll(st, offsets, Tail(todo),
                      IF k \in DOMAIN result THEN result ELSE Put(result, k, values))

\* The topic_offsets left if the offsets of key up to offset were dropped,
\* as remove_data would.
DropUpTo(topic_offsets, key, offset) ==
    IF key \notin DOMAIN topic_offsets THEN topic_offsets
    ELSE LET IsLater(o) == o > offset IN
         Put(topic_offsets, key, SelectSeq(topic_offsets[key], IsLater))

\* commit_offsets as it would be if a commit truncated the log.
RECURSIVE commit_offsets_Truncating(_, _, _)
commit_offsets_Truncating(st, offsets, todo) ==
    IF todo = <<>>
    THEN [storage |-> st, payload |-> [type |-> "commit_offsets_ok"], end |-> "run"]
    ELSE commit_offsets_Truncating(
            [st EXCEPT !.topic_committed_offsets = Put(@, Head(todo), offsets[Head(todo)]),
                       !.topic_offsets = DropUpTo(@, Head(todo), offsets[Head(todo)])],
            offsets, Tail(todo))

\* KafkaStorage::commit_offsets.
RECURSIVE commit_offsets(_, _, _)
commit_offsets(st, offsets, todo) ==
    IF todo = <<>>
    THEN [storage |-> st, payload |-> [type |-> "commit_offsets_ok"], end |-> "run"]
    ELSE commit_offsets([st EXCEPT !.topic_committed_offsets =
                                        Put(@, Head(todo), offsets[Head(todo)])],
                        offsets, Tail(todo))

\* KafkaStorage::list_committed_offsets.
list_committed_offsets(st, keys) ==
    LET has == {keys[i] : i \in 1 .. Len(keys)} \cap DOMAIN st.topic_committed_offsets IN
    [storage |-> st,
     payload |-> [type |-> "list_committed_offsets_ok",
                  offsets |-> [k \in has |-> st.topic_committed_offsets[k]]],
     end |-> "run"]

\* KafkaNode::step of single-kafka.rs with payload p: the storage it leaves,
\* the payload of the reply it writes, if any, and how it ends.
SingleStep(st, p) ==
    CASE p.type = "send" -> send(st, p.key, p.msg)
      [] p.type = "poll" -> poll(st, p.offsets, MapOrder(p.offsets), <<>>)
      [] p.type = "commit_offsets" -> commit_offsets(st, p.offsets, MapOrder(p.offsets))
      [] p.type = "list_committed_offsets" -> list_committed_offsets(st, p.keys)
      [] p.type = "error" -> [storage |-> st, payload |-> Nothing, end |-> "run"]
      [] OTHER -> [storage |-> st, payload |-> Nothing, end |-> "err"]

\* The main thread of the single node pops one event.
SinglePop(n) ==
    /\ loop[n] = "running"
    /\ rx[n] # <<>>
    /\ LET ev == Head(rx[n])
           o == IF ev.kind # "Message"
                THEN [storage |-> storage[n], payload |-> Nothing, end |-> "panic"]
                ELSE SingleStep(storage[n], ev.msg.payload)
       IN
        /\ rx' = [rx EXCEPT ![n] = Tail(@)]
        /\ id' = [id EXCEPT ![n] = IF ev.kind = "Message" THEN @ + 1 ELSE @]
        /\ storage' = [storage EXCEPT ![n] = o.storage]
        /\ loop' = [loop EXCEPT ![n] = IF o.end = "run" THEN "running" ELSE o.end]
        /\ reqs' = Handed(IF o.payload = Nothing THEN {}
                          ELSE {into_reply(ev.msg, id[n], o.payload)})
    /\ UNCHANGED <<net, stdin_open, frame, seqkv, linkv, stash_event, lost, allocated, bcast,
                   gossip_waker, partition, cluster, timer>>

SingleClient ==
    /\ \E n \in SingleNodes :
        \/ \E key \in SingleKeys, msg \in SingleMsgs :
            ClientRequest(n, [type |-> "send", key |-> key, msg |-> msg], MaxSingleRequests)
        \/ \E key \in SingleKeys, o \in 0 .. MaxPollOffset :
            ClientRequest(n, [type |-> "poll", offsets |-> [k \in {key} |-> o]],
                          MaxSingleRequests)
        \/ \E key \in SingleKeys, o \in 0 .. MaxCommitOffset :
            ClientRequest(n, [type |-> "commit_offsets", offsets |-> [k \in {key} |-> o]],
                          MaxSingleRequests)
        \/ \E keys \in {<<"k1">>, <<"k1", "k2">>} :
            ClientRequest(n, [type |-> "list_committed_offsets", keys |-> keys],
                          MaxSingleRequests)
    /\ UNCHANGED <<net, stdin_open, loop, id, frame, seqkv, linkv, stash_event, lost,
                   allocated, bcast, gossip_waker, partition, storage, cluster, timer>>

InitSingleKafka ==
    /\ InitRuntime(SingleNodes)
    /\ NoCounter
    /\ NoKafka
    /\ NoBroadcast
    /\ storage = [n \in SingleNodes |-> NewStorage]

NextSingleKafka ==
    \/ SingleClient
    \/ \E n \in SingleNodes : SinglePop(n)

SpecSingleKafka == InitSingleKafka /\ [][NextSingleKafka]_vars

\* The reply request r got says payload p.
Replied(r, p) == Acked(r) => reqs[r].replies[1].payload = p

\* C18: on a fresh single node the first send to k1 returns offset 0, the
\* second send to k1 returns offset 1, and poll {k1: 0} then returns
\* [[0, 100], [1, 200]].
C18_SequentialOffsets ==
    (/\ Len(reqs) >= 2
     /\ reqs[1].payload = [type |-> "send", key |-> "k1", msg |-> 100]
     /\ reqs[2].payload = [type |-> "send", key |-> "k1", msg |-> 200])
        => /\ Replied(1, [type |-> "send_ok", offset |-> 0])
           /\ Replied(2, [type |-> "send_ok", offset |-> 1])
           /\ (/\ Len(reqs) >= 3
               /\ reqs[3].payload = [type |-> "poll", offsets |-> [k \in {"k1"} |-> 0]])
                => Replied(3, [type |-> "poll_ok",
                               msgs |-> [k \in {"k1"} |-> << <<0, 100>>, <<1, 200>> >>]])


(***************************************************************************)
(* Claims about the sets of a broadcast node.                              *)
(***************************************************************************)
\* The values of the broadcast requests node n has answered.
BroadcastValues(n) ==
    {reqs[r].payload.message :
        r \in {q \in 1 .. Len(reqs) : /\ reqs[q].node = n
                                      /\ reqs[q].payload.type = "broadcast"
                                      /\ Acked(q)}}

MaxTopologyRequests == 2

TopologyLine3 ==
    [n \in Nodes3 |-> CASE n = "n0" -> <<"n1">>
                        [] n = "n1" -> <<"n0", "n2">>
                        [] OTHER -> <<"n1">>]

InitTopology ==
    /\ InitRuntime(Nodes3)
    /\ NoCounter
    /\ NoKafka
    /\ bcast = [n \in Nodes3 |-> [NewBroadcastNode EXCEPT !.known = [p \in Nodes3 |-> {}]]]
    /\ gossip_waker = [n \in Nodes3 |-> FALSE]
    /\ timer = [n \in Nodes3 |-> "wait"]
    /\ partition = "none"
    /\ NoStorage

NextTopology ==
    \/ TopologyClient({TopologyLine3}, MaxTopologyRequests)
    \/ BroadcastClient(MaxTopologyRequests)
    \/ \E n \in Nodes3 : BroadcastDeliver(n)
    \/ \E n \in Nodes3 : Tick(n)
    \/ \E n \in Nodes3 : BroadcastPop(n, FALSE)

SpecTopology == InitTopology /\ [][NextTopology]_vars

\* The topology requests node n has answered.
TopologyOf(n) ==
    {r \in 1 .. Len(reqs) :
        reqs[r].node = n /\ reqs[r].payload.type = "topology" /\ Acked(r)}

\* C20: after a topology message, neighborhood has at most half as many
\* nodes (integer division) as the topology map has keys.
C20_NeighborhoodCapped ==
    \A n \in Nodes3 :
        \A r \in TopologyOf(n) :
            Len(bcast[n].neighborhood)
                <= Cardinality(DOMAIN reqs[r].payload.topology) \div 2


(***************************************************************************)
(* Broadcast with topology maps of every shape: a line, no neighbors, a    *)
(* map of one node, a node listed as its own neighbor, and a neighbor that *)
(* is no node of the cluster.                                              *)
(***************************************************************************)
TopologyShapes ==
    {TopologyLine, TopologyBare,
     [n \in {"n0"} |-> <<>>],
     [n \in Nodes |-> <<n>>],
     [n \in Nodes |-> <<"n9">>]}

NextTopologyAny ==
    \/ TopologyClient(TopologyShapes, MaxRequests)
    \/ BroadcastClient(MaxRequests)
    \/ \E n \in Nodes : BroadcastDeliver(n)
    \/ \E n \in Nodes : Tick(n)
    \/ \E n \in Nodes : BroadcastPop(n, FALSE)

SpecTopologyAny == InitBroadcast /\ [][NextTopologyAny]_vars

\* The topology requests whose map has a list for the node they are sent to.
OwnTopology ==
    {r \in 1 .. Len(reqs) : /\ reqs[r].payload.type = "topology"
                            /\ reqs[r].node \in DOMAIN reqs[r].payload.topology}

\* C21: after a topology message whose keys contain the node, neighborhood
\* holds only other nodes of the cluster, each with an entry in known.
C21_NeighborsArePeers ==
    \A r \in OwnTopology :
        Acked(r) =>
            LET n == reqs[r].node IN
            Range(bcast[n].neighborhood) \subseteq (DOMAIN bcast[n].known) \ {n}

\* Request r waits on the queue of its node.
Queued(r) ==
    \E i \in 1 .. Len(rx[reqs[r].node]) :
        LET ev == rx[reqs[r].node][i] IN ev.kind = "Message" /\ ev.msg.src = Client(r)

\* C22: the step that takes from the queue a topology request whose map has
\* the node's own id as a key answers it with topology_ok and neither fails
\* nor panics, whatever the shape of the map.
C22_TopologyAnswered ==
    [][\A r \in OwnTopology :
        (Queued(r) /\ ~Queued(r)') =>
            /\ Acked(r)'
            /\ reqs'[r].replies[1].payload.type = "topology_ok"
            /\ loop'[reqs[r].node] = "running"]_vars

\* The map of one node was answered, and so was a map that leaves no key to
\* sample from.
C22_Witness ==
    /\ \E r \in OwnTopology : Acked(r) /\ DOMAIN reqs[r].payload.topology = {"n0"}
    /\ \E r \in OwnTopology : Acked(r) /\ reqs[r].payload.topology = TopologyLine


(***************************************************************************)
(* Replicated transactions (bin/txn.rs) in a cluster of three nodes: each  *)
(* node keeps a map of its own and tells the others what it wrote.         *)
(***************************************************************************)
MaxTxnRequests == 2

node_ids3 == <<"n0", "n1", "n2">>

R(key) == [op |-> "r", key |-> key, value |-> None]
W(key, value) == [op |-> "w", key |-> key, value |-> value]

\* The transactions of the clients.
Txns == {<<R(1)>>, <<W(1, 1)>>, <<W(1, 2), R(1), W(2, 1)>>}

\* The loop over the operations of a txn: the storage, the result and the
\* pairs changed after the operations of txn.
RECURSIVE TxnOps(_, _, _, _)
TxnOps(st, txn, result, changed) ==
    IF txn = <<>> THEN [storage |-> st, result |-> result, changed |-> changed]
    ELSE LET o == Head(txn) IN
         CASE o.op = "r" ->
                TxnOps(st, Tail(txn),
                       Append(result, [o EXCEPT !.value = IF o.key \in DOMAIN st
                                                          THEN st[o.key] ELSE None]),
                       changed)
           [] o.op = "w" ->
                TxnOps(Put(st, o.key, o.value), Tail(txn), Append(result, o),
                       Append(changed, <<o.key, o.value>>))
           [] OTHER -> TxnOps(st, Tail(txn), result, changed)

\* The fan-out as it would be if it did not skip the node itself.
SyncTargets_All(n) == node_ids3

\* The nodes the fan-out writes to, in its order: node_ids without the node.
SyncTargets(n) ==
    LET Other(x) == x # n IN SelectSeq(node_ids3, Other)

\* The Sync arm: the pairs are inserted in order.
RECURSIVE ApplyChanged(_, _)
ApplyChanged(st, changed) ==
    IF changed = <<>> THEN st
    ELSE ApplyChanged(Put(st, Head(changed)[1], Head(changed)[2]), Tail(changed))

\* TxnNode::step with message m: the storage it leaves, the messages it
\* writes, the msg_ids it takes and how it ends.
TxnStep(n, m) ==
    LET p == m.payload
        st == storage[n]
        reply == into_reply(m, id[n], p)
    IN
    CASE p.type = "txn" ->
            LET done == TxnOps(st, p.txn, <<>>, <<>>)
                to == SyncTargets(n)
            IN [storage |-> done.storage,
                out |-> {Message(n, to[i], id[n] + i, None,
                                 [type |-> "sync", changed |-> done.changed]) :
                            i \in 1 .. Len(to)}
                        \cup {[reply EXCEPT !.payload = [type |-> "txn_ok",
                                                         txn |-> done.result]]},
                used |-> 1 + Len(to), end |-> "run"]
      [] p.type = "sync" ->
            [storage |-> ApplyChanged(st, p.changed),
             out |-> {[reply EXCEPT !.payload = [type |-> "sync_ok"]]},
             used |-> 1, end |-> "run"]
      [] p.type \in {"sync_ok", "error"} ->
            [storage |-> st, out |-> {}, used |-> 1, end |-> "run"]
      [] OTHER -> [storage |-> st, out |-> {}, used |-> 1, end |-> "err"]

\* The main thread of a txn node pops one event.
TxnPop(n) ==
    /\ loop[n] = "running"
    /\ rx[n] # <<>>
    /\ LET ev == Head(rx[n])
           o == IF ev.kind # "Message"
                THEN [storage |-> storage[n], out |-> {}, used |-> 0, end |-> "panic"]
                ELSE TxnStep(n, ev.msg)
       IN
        /\ rx' = [rx EXCEPT ![n] = Tail(@)]
        /\ id' = [id EXCEPT ![n] = @ + o.used]
        /\ storage' = [storage EXCEPT ![n] = o.storage]
        /\ loop' = [loop EXCEPT ![n] = IF o.end = "run" THEN "running" ELSE o.end]
        /\ net' = net \cup ToNodes(o.out)
        /\ reqs' = Handed(o.out)
    /\ UNCHANGED <<stdin_open, frame, seqkv, linkv, stash_event, lost, allocated, bcast,
                   gossip_waker, partition, cluster, timer>>

TxnClient ==
    /\ \E n \in Nodes3, txn \in Txns :
        ClientRequest(n, [type |-> "txn", txn |-> txn], MaxTxnRequests)
    /\ UNCHANGED <<net, stdin_open, loop, id, frame, seqkv, linkv, stash_event, lost,
                   allocated, bcast, gossip_waker, partition, storage, cluster, timer>>

InitTxn ==
    /\ InitRuntime(Nodes3)
    /\ NoCounter
    /\ NoKafka
    /\ NoBroadcast
    /\ storage = [n \in Nodes3 |-> <<>>]

NextTxn ==
    \/ TxnClient
    \/ \E n \in Nodes3 : Deliver(n)
    \/ \E n \in Nodes3 : TxnPop(n)

SpecTxn == InitTxn /\ [][NextTxn]_vars

\* The pairs a txn writes, in the order of its operations.
Written(txn) ==
    LET IsWrite(o) == o.op = "w"
        ws == SelectSeq(txn, IsWrite)
    IN [i \in 1 .. Len(ws) |-> <<ws[i].key, ws[i].value>>]

\* Node n takes the head of its queue in this step, and what it then writes
\* to other nodes.
Pops(n) == rx[n] # <<>> /\ rx'[n] = Tail(rx[n])
Sent(n) == {m \in net' \ net : m.src = n}

\* C23: the step of a txn with a write sends one sync to every other node
\* and none to the node itself, with the written pairs in operation order;
\* the step of a sync inserts the pairs and answers sync_ok; the step of a
\* sync_ok writes nothing.
C23_SyncFanOut ==
    [][\A n \in Nodes3 :
        Pops(n) =>
            LET m == Head(rx[n]).msg
                p == m.payload
            IN
            /\ (p.type = "txn" /\ Written(p.txn) # <<>>) =>
                    /\ \A q \in Nodes3 \ {n} :
                        \E x \in Sent(n) :
                            /\ {y \in Sent(n) : y.dst = q} = {x}
                            /\ x.payload = [type |-> "sync", changed |-> Written(p.txn)]
                    /\ \A x \in Sent(n) : x.dst # n
            /\ p.type = "sync" =>
                    /\ \A i \in 1 .. Len(p.changed) :
                        /\ p.changed[i][1] \in DOMAIN storage'[n]
                        /\ (\A j \in i + 1 .. Len(p.changed) :
                                p.changed[j][1] # p.changed[i][1])
                            => storage'[n][p.changed[i][1]] = p.changed[i][2]
                    /\ Sent(n) = {Message(n, m.src, id[n], m.id, [type |-> "sync_ok"])}
            /\ p.type = "sync_ok" => Sent(n) = {} /\ reqs' = reqs]_vars

\* A txn that writes was answered, every node has what it wrote and nothing
\* is on its way: the syncs and their sync_ok were all taken.
C23_Witness ==
    /\ \E r \in 1 .. Len(reqs) : Acked(r) /\ Len(Written(reqs[r].payload.txn)) = 2
    /\ \A n \in Nodes3 : storage[n] = storage["n0"] /\ rx[n] = <<>> /\ id[n] > 1
    /\ net = {}


(***************************************************************************)
(* Claims about the allocation of offsets in the multi-node Kafka log.     *)
(***************************************************************************)
\* C24: two sends for one key, on whatever nodes, never obtain the same
\* offset: no offset of a key is allocated to two messages.
C24_OffsetsUnique ==
    \A x \in allocated, y \in allocated :
        (x.key = y.key /\ x.offset = y.offset) => x.msg = y.msg


\* The offsets allocated for key k by the sends so far.
OffsetsOf(k) == {x.offset : x \in {y \in allocated : y.key = k}}

\* C28: a key with one owner gets the offsets 0, 1, 2, ... without gaps,
\* each once; latest_<k> is absent from lin-kv until the first send (which
\* gets offset 0) and from then on holds the highest offset allocated.
C28_OffsetsDense ==
    \A k \in RoutedKeys :
        /\ OffsetsOf(k) = 0 .. (Cardinality({y \in allocated : y.key = k}) - 1)
        /\ IF OffsetsOf(k) = {} THEN latest_key(k) \notin DOMAIN linkv
           ELSE /\ latest_key(k) \in DOMAIN linkv
                /\ linkv[latest_key(k)] = ToStr(Cardinality(OffsetsOf(k)) - 1)

\* Three sends to one key were answered with the offsets 0, 1 and 2, one of
\* them forwarded to the owner by the other node.
C28_Witness ==
    \E k \in RoutedKeys :
        /\ \A o \in 0 .. 2 : \E r \in 1 .. Len(reqs) :
                /\ reqs[r].payload.key = k
                /\ Acked(r)
                /\ Replied(r, [type |-> "send_ok", offset |-> o])
        /\ \E r \in 1 .. Len(reqs) :
                reqs[r].payload.key = k /\ ProxyIdx(reqs[r].node, k) # None

\* How often the pair (o, v) is in the list poll r returned for key k.
Occurs(r, k, o, v) ==
    IF k \notin DOMAIN PollMsgs(r) THEN 0
    ELSE Cardinality({i \in 1 .. Len(PollMsgs(r)[k]) : PollMsgs(r)[k][i] = <<o, v>>})

\* C25: a send acknowledged with offset o stays visible: a poll issued after
\* its send_ok for the same key and an offset not above o returns (o, v)
\* exactly once.
C25_AckedSendVisible ==
    \A r \in Polls :
        \A a \in Sends \cap reqs[r].after :
            LET k == reqs[a].payload.key IN
            (k \in DOMAIN reqs[r].payload.offsets /\ reqs[r].payload.offsets[k] <= SendOffset(a))
                => Occurs(r, k, SendOffset(a), reqs[a].payload.msg) = 1


(***************************************************************************)
(* The Kafka cluster with the node_ids of the init message in either       *)
(* order, lin-kv answering in time.                                        *)
(***************************************************************************)
InitKafkaIds ==
    /\ InitRuntime(Nodes)
    /\ NoCounter
    /\ linkv = <<>>
    /\ stash_event = [n \in Nodes |-> <<>>]
    /\ allocated = {}
    /\ NoBroadcast
    /\ NoStorage
    /\ cluster \in {<<"n0", "n1">>, <<"n1", "n0">>}

SpecKafkaIds == InitKafkaIds /\ [][NextKafkaLive]_vars

\* The number a node id ends with, and the number a key mod the size of the
\* cluster gives.
NodeNumber(n) == ParseU64(Suffix(n))
KeyOwner(key) == ParseU64(key) % Len(node_ids)

\* C26: a send for a numeric key is appended only by the node whose number
\* is the key mod the size of the cluster; a forward_send goes to that node
\* and never to the node that writes it; for every order of node_ids.
C26_OwnerAppends ==
    /\ \A a \in allocated :
        ParseU64(a.key) # None => NodeNumber(a.node) = KeyOwner(a.key)
    /\ \A m \in net :
        m.payload.type = "forward_send" =>
            /\ m.dst # m.src
            /\ NodeNumber(m.dst) = KeyOwner(m.payload.key)


(***************************************************************************)
(* The Kafka cluster of three nodes, every client send being one its node  *)
(* has to forward; lin-kv answers in time.                                 *)
(***************************************************************************)
MaxForwardRequests == 4
MaxOwnerSends == 1
MaxForwarderSends == 2

\* The number of sends the clients of node n make: a node that owns one of
\* the keys gets fewer than a node that forwards every key.
SendBudget(n) ==
    IF \E key \in RoutedKeys : ProxyIdx(n, key) = None THEN MaxOwnerSends
    ELSE MaxForwarderSends

\* The clients of a node send one request at a time, and a bounded number
\* of them.
ForwardClient ==
    /\ \E n \in Nodes3, key \in RoutedKeys :
        /\ ProxyIdx(n, key) # None
        /\ \A r \in 1 .. Len(reqs) : reqs[r].node = n => Acked(r)
        /\ Cardinality({r \in 1 .. Len(reqs) : reqs[r].node = n}) < SendBudget(n)
        /\ ClientRequest(n, [type |-> "send", key |-> key, msg |-> Len(reqs) + 1],
                         MaxForwardRequests)
    /\ UNCHANGED <<net, stdin_open, loop, id, frame, seqkv, linkv, stash_event, lost,
                   allocated, bcast, gossip_waker, partition, storage, cluster, timer>>

InitKafka3 ==
    /\ InitRuntime(Nodes3)
    /\ NoCounter
    /\ linkv = <<>>
    /\ stash_event = [n \in Nodes3 |-> <<>>]
    /\ allocated = {}
    /\ NoBroadcast
    /\ NoStorage
    /\ cluster = node_ids3

NextKafka3 ==
    \/ ForwardClient
    \/ \E n \in Nodes3 : Deliver(n)
    \/ \E n \in Nodes3 : KafkaPop(n, {FALSE})

SpecKafka3 == InitKafka3 /\ [][NextKafka3]_vars

\* Node n holds on its stash a forward_send of a peer.
StashedForward(n) ==
    \E i \in 1 .. Len(stash_event[n]) : stash_event[n][i].payload.type = "forward_send"

\* Nothing is on its way and no queue holds an event: no node and no
\* message of the network can take a step.
Quiet == net = {} /\ \A n \in Nodes3 : rx[n] = <<>>

\* C27: with three nodes forwarding does not deadlock: a forward_send that
\* reached a node while it waited inside send_proxy_node, also while it
\* waited for lin-kv in the inline service of another forward_send, is
\* serviced; it is never left put aside at a node that waits for the
\* send_ok of its own forward when nothing else can happen.
C27_ForwardServiced ==
    ~(Quiet /\ \E n \in Nodes3 : frame[n].pc = "proxy" /\ StashedForward(n))


(***************************************************************************)
(* Claims about the storage of the single-node Kafka log.                  *)
(***************************************************************************)
\* The records of block that start at byte position pos.
RecordsAt(block, pos) ==
    {block[i] : i \in {j \in 1 .. Len(block) : BlockLen(SubSeq(block, 1, j - 1)) = pos}}

\* C29: in the storage of the single node the queue of every key is
\* strictly increasing, every queued offset is the byte position at which
\* a record of data_block starts and that record stores this offset,
\* current_offset is the length of data_block, and the offset a send was
\* answered with is the byte position of the record with its message, and
\* is in the queue of its key.
C29_StorageConsistent ==
    \A n \in SingleNodes :
        LET st == storage[n] IN
        /\ \A k \in DOMAIN st.topic_offsets :
            LET queue == st.topic_offsets[k] IN
            /\ \A i \in 1 .. Len(queue), j \in 1 .. Len(queue) : i < j => queue[i] < queue[j]
            /\ \A i \in 1 .. Len(queue) :
                /\ RecordsAt(st.data_block, queue[i]) # {}
                /\ \A rec \in RecordsAt(st.data_block, queue[i]) : rec.offset = queue[i]
        /\ st.current_offset = BlockLen(st.data_block)
        /\ \A r \in 1 .. Len(reqs) :
            (reqs[r].node = n /\ reqs[r].payload.type = "send" /\ Acked(r)) =>
                LET o == reqs[r].replies[1].payload.offset IN
                /\ reqs[r].replies[1].payload.type = "send_ok"
                /\ \E rec \in RecordsAt(st.data_block, o) :
                        rec.offset = o /\ rec.value = reqs[r].payload.msg
                /\ reqs[r].payload.key \in DOMAIN st.topic_offsets
                /\ \E i \in 1 .. Len(st.topic_offsets[reqs[r].payload.key]) :
                        st.topic_offsets[reqs[r].payload.key][i] = o

\* Three sends were answered, two of them to one key with the third, to the
\* other key, in between.
C29_Witness ==
    /\ \A r \in 1 .. MaxSingleRequests : r <= Len(reqs) /\ Acked(r)
    /\ storage["n0"].topic_offsets =
            Put(Put(<<>>, "k1", <<0, 2 * (U64_LEN + U64_LEN + U32_LEN)>>),
                "k2", <<U64_LEN + U64_LEN + U32_LEN>>)


(***************************************************************************)
(* The single node with clients that send and poll: the offsets asked for  *)
(* are those at, between and beyond the byte positions of the records.     *)
(***************************************************************************)
MaxSinglePollRequests == 4
RECORD_LEN == U32_LEN + U64_LEN + U64_LEN
PollFroms == {0, 1, RECORD_LEN, 2 * RECORD_LEN, 2 * RECORD_LEN + 1}

SinglePollClient ==
    /\ \E n \in SingleNodes :
        \/ \E key \in SingleKeys, msg \in SingleMsgs :
            ClientRequest(n, [type |-> "send", key |-> key, msg |-> msg],
                          MaxSinglePollRequests)
        \/ \E key \in SingleKeys, o \in PollFroms :
            ClientRequest(n, [type |-> "poll", offsets |-> [k \in {key} |-> o]],
                          MaxSinglePollRequests)
    /\ UNCHANGED <<net, stdin_open, loop, id, frame, seqkv, linkv, stash_event, lost,
                   allocated, bcast, gossip_waker, partition, storage, cluster, timer>>

NextSinglePoll ==
    \/ SinglePollClient
    \/ \E n \in SingleNodes : SinglePop(n)

SpecSinglePoll == InitSingleKafka /\ [][NextSinglePoll]_vars

\* The sends to key before request r that were answered with an offset of
\* at least from, in the order they were made: the node takes its requests
\* in the order they were written.
SendsBefore(r, key, from) ==
    LET Counts(q) == /\ reqs[q].payload.type = "send"
                     /\ reqs[q].payload.key = key
                     /\ Acked(q)
                     /\ reqs[q].replies[1].payload.offset >= from
    IN SelectSeq([q \in 1 .. (r - 1) |-> q], Counts)

\* What C30 says poll r returns: for its key, the (offset, msg) pairs of
\* those sends, and no entry when there is none.
ExpectedMsgs(r) ==
    LET key == CHOOSE k \in DOMAIN reqs[r].payload.offsets : TRUE
        qs == SendsBefore(r, key, reqs[r].payload.offsets[key])
        pairs == [i \in 1 .. Len(qs) |->
                    <<reqs[qs[i]].replies[1].payload.offset, reqs[qs[i]].payload.msg>>]
    IN IF qs = <<>> THEN <<>> ELSE [k \in {key} |-> pairs]

\* C30: every poll is answered with exactly the (offset, msg) pairs of the
\* earlier sends to its key whose offset is at least the one asked for, in
\* the order of the sends, also with records of other keys in between; a
\* key without such a send is absent from the answer.
C30_PollComplete ==
    \A r \in 1 .. Len(reqs) :
        (reqs[r].payload.type = "poll" /\ Acked(r)) =>
            reqs[r].replies[1].payload = [type |-> "poll_ok", msgs |-> ExpectedMsgs(r)]

\* Two sends to k1 with a send to k2 between them, then a poll of k1 from
\* offset 0 that was answered with both records of k1.
C30_Witness ==
    /\ Len(reqs) = MaxSinglePollRequests
    /\ reqs[1].payload.type = "send" /\ reqs[1].payload.key = "k1"
    /\ reqs[2].payload.type = "send" /\ reqs[2].payload.key = "k2"
    /\ reqs[3].payload.type = "send" /\ reqs[3].payload.key = "k1"
    /\ reqs[4].payload = [type |-> "poll", offsets |-> [k \in {"k1"} |-> 0]]
    /\ Acked(4)
    /\ Len(reqs[4].replies[1].payload.msgs["k1"]) = 2


(***************************************************************************)
(* Claims about commit_offsets of the single-node Kafka log.               *)
(***************************************************************************)
\* The main thread of node n takes a commit_offsets request in this step.
PopsCommit(n) ==
    /\ rx[n] # <<>>
    /\ Head(rx[n]).kind = "Message"
    /\ Head(rx[n]).msg.payload.type = "commit_offsets"
    /\ id'[n] = id[n] + 1

\* What a poll of key from offset from would be answered by storage st.
PollAnswer(st, key, from) == poll(st, [k \in {key} |-> from], <<key>>, <<>>).payload

\* C31: a step that handles commit_offsets leaves data_block, topic_offsets
\* and current_offset as they were and records the committed offsets, so
\* every poll is answered the same before and after it.
C31_CommitKeepsLog ==
    [][\A n \in SingleNodes : PopsCommit(n) =>
        LET offsets == Head(rx[n]).msg.payload.offsets IN
        /\ storage'[n].data_block = storage[n].data_block
        /\ storage'[n].topic_offsets = storage[n].topic_offsets
        /\ storage'[n].current_offset = storage[n].current_offset
        /\ \A k \in DOMAIN offsets :
                /\ k \in DOMAIN storage'[n].topic_committed_offsets
                /\ storage'[n].topic_committed_offsets[k] = offsets[k]
        /\ \A key \in SingleKeys, from \in 0 .. MaxPollOffset :
                PollAnswer(storage'[n], key, from) = PollAnswer(storage[n], key, from)]_vars

\* A send to k1, then a commit of k1 at the offset of its record, then a
\* poll of k1 from 0 that was answered with the record.
C31_Witness ==
    /\ Len(reqs) = 3
    /\ reqs[1].payload.type = "send" /\ reqs[1].payload.key = "k1"
    /\ reqs[2].payload = [type |-> "commit_offsets", offsets |-> [k \in {"k1"} |-> 0]]
    /\ reqs[3].payload = [type |-> "poll", offsets |-> [k \in {"k1"} |-> 0]]
    /\ Acked(3)
    /\ reqs[3].replies[1].payload =
            [type |-> "poll_ok",
             msgs |-> [k \in {"k1"} |-> << <<0, reqs[1].payload.msg>> >>]]
    /\ storage["n0"].topic_committed_offsets = [k \in {"k1"} |-> 0]


(***************************************************************************)
(* The counter with a seq-kv that may refuse a request: a read, or a cas   *)
(* it did not apply, is answered with error 11 (temporarily unavailable).  *)
(***************************************************************************)
UNAVAILABLE == 11

KvFault(n) ==
    /\ \E m \in net :
        /\ m.dst = n
        /\ m.src = "seq-kv"
        /\ m.payload.type \in {"read_ok", "error"}
        /\ m.payload # [type |-> "error", code |-> UNAVAILABLE]
        /\ net' = (net \ {m}) \cup {[m EXCEPT !.payload = [type |-> "error",
                                                            code |-> UNAVAILABLE]]}
    /\ UNCHANGED <<rx, stdin_open, loop, id, frame, seqkv, linkv, stash_event, reqs, lost,
                   allocated, bcast, gossip_waker, partition, storage, cluster, timer>>

NextCounterFaulty ==
    \/ CounterClient
    \/ \E n \in Nodes : Deliver(n)
    \/ \E n \in Nodes : CounterPop(n)
    \/ \E n \in Nodes : KvFault(n)

SpecCounterFaulty == InitCounter /\ [][NextCounterFaulty]_vars

\* Node n, inside an add, takes the reply of seq-kv in this step.
AddTakesReply(n) ==
    /\ Pops(n)
    /\ frame[n].pc # "idle"
    /\ frame[n].req.payload.type = "add"
    /\ Head(rx[n]).kind = "Message"
    /\ Head(rx[n]).msg.src = "seq-kv"

\* The reply seq-kv gave to the request node n wrote in this step.
KvAnswer(n) == {m.payload : m \in {x \in net' \ net : x.dst = n /\ x.src = "seq-kv"}}

\* How add goes on after a reply of seq-kv: error 22 to the cas starts again
\* with a read of the key and nothing is answered; error 20 to the read
\* makes the key 0 and the value read 0; every other error ends the step
\* with an error and without add_ok; and a cas written for value old asks
\* for old -> old + delta and is answered cas_ok exactly when it was applied.
AddErrorHandling(n) ==
    AddTakesReply(n) =>
        LET f == frame[n]
            p == Head(rx[n]).msg.payload
        IN
        /\ (p.type = "error" /\ f.pc = "cas" /\ p.code = 22) =>
                /\ frame'[n] = [pc |-> "read", req |-> f.req]
                /\ KvAnswer(n) # {}
                /\ loop'[n] = "running"
                /\ reqs' = reqs
        /\ (p.type = "error" /\ f.pc = "read" /\ p.code = 20) =>
                /\ frame'[n] = [pc |-> "init_write", req |-> f.req]
                /\ GLOBAL_KEY \in DOMAIN seqkv' /\ seqkv'[GLOBAL_KEY] = 0
                /\ reqs' = reqs
        /\ (f.pc = "init_write" /\ p.type = "write_ok") => frame'[n].old = 0
        /\ (/\ p.type = "error"
            /\ ~(f.pc = "cas" /\ p.code = 22)
            /\ ~(f.pc = "read" /\ p.code = 20)) =>
                /\ loop'[n] = "err"
                /\ frame'[n] = Idle
                /\ reqs' = reqs
                /\ KvAnswer(n) = {}
        /\ frame'[n].pc = "cas" =>
                LET old == frame'[n].old
                    applied == GLOBAL_KEY \notin DOMAIN seqkv \/ seqkv[GLOBAL_KEY] = old
                IN /\ applied => /\ seqkv'[GLOBAL_KEY] = old + f.req.payload.delta
                                 /\ KvAnswer(n) = {[type |-> "cas_ok"]}
                   /\ ~applied => /\ seqkv' = seqkv
                                  /\ KvAnswer(n) = {[type |-> "error", code |-> 22]}

\* The add requests that are answered in this step.
AddsAnswered ==
    {r \in 1 .. Len(reqs) : reqs[r].payload.type = "add" /\ ~Acked(r) /\ Acked(r)'}

\* Request r is answered by the step that takes the cas_ok of its cas.
AfterCasOk(r) ==
    LET n == reqs[r].node IN
    /\ AddTakesReply(n)
    /\ frame[n].pc = "cas"
    /\ frame[n].req.id = r
    /\ Head(rx[n]).msg.payload.type = "cas_ok"
    /\ reqs'[r].replies[1].payload.type = "add_ok"

\* An add of 0 is answered by step itself, which calls seq-kv for nothing.
ZeroAdd(r) ==
    LET n == reqs[r].node IN
    /\ reqs[r].payload.delta = 0
    /\ Pops(n)
    /\ frame[n].pc = "idle"
    /\ KvAnswer(n) = {}
    /\ seqkv' = seqkv
    /\ reqs'[r].replies[1].payload.type = "add_ok"

\* C32 as stated: error 22 to the cas is the only failure after which add
\* tries again, and it does so with a fresh read; error 20 to the read is
\* taken as 0 and the key is initialised; every other error ends the add
\* without add_ok; and add_ok is sent only after a cas from old to
\* old + delta succeeded.
C32_AddOkOnlyAfterCas ==
    [][/\ \A n \in Nodes : AddErrorHandling(n)
       /\ \A r \in AddsAnswered : AfterCasOk(r)]_vars

\* C32, with the add of 0 set apart: error 22 to the cas is the only
\* failure after which add tries again, with a fresh read; error 20 to the
\* read is taken as 0 and the key is initialised; every other error ends
\* the add without add_ok; add_ok for a delta above 0 is sent only after a
\* cas from old to old + delta succeeded, and add_ok for delta 0 is sent
\* without any request to seq-kv.
C32_AddHandling ==
    [][/\ \A n \in Nodes : AddErrorHandling(n)
       /\ \A r \in AddsAnswered :
            IF reqs[r].payload.delta = 0 THEN ZeroAdd(r) ELSE AfterCasOk(r)]_vars

\* The only request of a node, an add of more than 0, was answered after
\* its first cas failed with error 22 and it read the key again (the step
\* took six msg_ids or more), and the other node, inside the cas of its
\* add, is about to take error 11.
C32_Witness ==
    \E r \in 1 .. Len(reqs), n \in Nodes :
        /\ reqs[r].payload.type = "add" /\ reqs[r].payload.delta > 0
        /\ Acked(r)
        /\ \A q \in 1 .. Len(reqs) : reqs[q].node = reqs[r].node => q = r
        /\ id[reqs[r].node] >= 6
        /\ n # reqs[r].node
        /\ frame[n].pc = "cas"
        /\ rx[n] # <<>>
        /\ Head(rx[n]).kind = "Message"
        /\ Head(rx[n]).msg.payload = [type |-> "error", code |-> UNAVAILABLE]


\* C33: the value under "Counter" in seq-kv never goes down, whatever the
\* order of the add and read requests of the nodes: once the key is there
\* every step leaves it at least as large as it was.
C33_CounterNeverDecreases ==
    [][(GLOBAL_KEY \in DOMAIN seqkv) =>
        (GLOBAL_KEY \in DOMAIN seqkv' /\ seqkv[GLOBAL_KEY] <= seqkv'[GLOBAL_KEY])]_vars


(***************************************************************************)
(* Claims about the gossip of a broadcast node.                            *)
(***************************************************************************)
\* The main thread of node n takes a Gossip tick in this step.
PopsTick(n) == Pops(n) /\ Head(rx[n]).kind = "Injected"

\* Outcome o of gossip at node n has, for every neighbor, one message, a
\* gossip from n without msg_id whose seen holds every value of messages
\* that is not in known of the neighbor and nothing outside messages; it
\* has no other message, ends normally and leaves the node as it was.
GossipAsClaimed(n, o) ==
    LET st == bcast[n] IN
    /\ o.end = "run"
    /\ o.node = st
    /\ \A m \in o.out : m.dst \in Range(st.neighborhood)
    /\ \A p \in Range(st.neighborhood) :
        LET to == {m \in o.out : m.dst = p} IN
        /\ Cardinality(to) = 1
        /\ \A m \in to :
            /\ m.src = n
            /\ m.payload.type = "gossip"
            /\ \A v \in st.messages : v \notin st.known[p] => v \in m.payload.seen
            /\ m.payload.seen \subseteq st.messages

\* C34: the step of a Gossip tick writes, for every neighbor, exactly one
\* gossip whose seen contains every value of messages that is not in known
\* of that neighbor and no value outside messages, and it changes neither
\* messages nor known.
C34_TickGossipsNovel ==
    [][\A n \in Nodes : PopsTick(n) =>
        /\ \A o \in gossip(n) : GossipAsClaimed(n, o)
        /\ \E o \in gossip(n) : net' = net \cup Carried(o.out)
        /\ bcast'[n].messages = bcast[n].messages
        /\ bcast'[n].known = bcast[n].known]_vars


(***************************************************************************)
(* Claims about the waker of the gossip timer.                             *)
(***************************************************************************)
\* The main thread of node n takes a gossip of a node of the cluster in this
\* step.
PopsGossip(n) ==
    /\ Pops(n)
    /\ Head(rx[n]).kind = "Message"
    /\ Head(rx[n]).msg.payload.type = "gossip"
    /\ Head(rx[n]).msg.src \in DOMAIN bcast[n].known

\* The number of values the step adds to messages of node n.
Added(n) == Cardinality(bcast'[n].messages) - Cardinality(bcast[n].messages)

\* C35: the step of a gossip that adds D values to messages signals the
\* waker exactly when D >= gossip_delta, and then gossip_delta becomes D;
\* otherwise the flag and gossip_delta stay as they are.  No step lowers
\* gossip_delta, and only such a signal changes it, so it is the largest D
\* that led to a signal.
C35_WakerRule ==
    [][\A n \in Nodes :
        /\ bcast'[n].gossip_delta >= bcast[n].gossip_delta
        /\ PopsGossip(n) =>
                IF Added(n) >= bcast[n].gossip_delta
                THEN gossip_waker'[n] /\ bcast'[n].gossip_delta = Added(n)
                ELSE /\ gossip_waker'[n] = gossip_waker[n]
                     /\ bcast'[n].gossip_delta = bcast[n].gossip_delta
        /\ ~PopsGossip(n) => bcast'[n].gossip_delta = bcast[n].gossip_delta]_vars

\* A node whose gossip_delta a gossip with a new value raised to 1 is about
\* to take a gossip that brings nothing new, with the flag down.
C35_Witness ==
    \E n \in Nodes :
        /\ bcast[n].gossip_delta = 1
        /\ ~gossip_waker[n]
        /\ loop[n] = "running"
        /\ rx[n] # <<>>
        /\ Head(rx[n]).kind = "Message"
        /\ Head(rx[n]).msg.payload.type = "gossip"
        /\ Head(rx[n]).msg.payload.seen # {}
        /\ Head(rx[n]).msg.payload.seen \subseteq bcast[n].messages

\* C36: the step of a gossip that adds no value to messages does not signal
\* the waker: a flag that is down stays down.
C36_NoWakeWithoutNews ==
    [][\A n \in Nodes :
        (PopsGossip(n) /\ Added(n) = 0 /\ ~gossip_waker[n]) => ~gossip_waker'[n]]_vars


(***************************************************************************)
(* The timer thread of from_init step by step: it is in wait_timeout       *)
(* ("wait") or, with the flag cleared, about to send the Gossip event      *)
(* ("send").  A signal raised while it is about to send finds nobody       *)
(* waiting; the flag stays up until the next wait_timeout returns.         *)
(***************************************************************************)
\* The thread as it would be if it tested the flag alone and a signal
\* raised while nobody waited were never looked at again: wait_timeout
\* returns only to a thread that was notified while waiting, which the
\* model takes as the flag being up when the wait began.
TimerReturns_FlagOnly(n) ==
    /\ loop[n] = "running"
    /\ timer[n] = "wait"
    /\ gossip_waker[n]
    /\ gossip_waker' = [gossip_waker EXCEPT ![n] = FALSE]
    /\ timer' = [timer EXCEPT ![n] = "send"]
    /\ UNCHANGED <<rx, net, stdin_open, loop, id, frame, seqkv, linkv, stash_event, reqs, lost,
                   allocated, bcast, partition, storage, cluster>>

\* wait_timeout returns with the flag up or after 300 ms: the flag is
\* cleared and need_gossip is true.  (A return with the flag down before
\* the time is up changes nothing: the thread waits again.)
TimerReturns(n) ==
    /\ loop[n] = "running"
    /\ timer[n] = "wait"
    /\ gossip_waker' = [gossip_waker EXCEPT ![n] = FALSE]
    /\ timer' = [timer EXCEPT ![n] = "send"]
    /\ UNCHANGED <<rx, net, stdin_open, loop, id, frame, seqkv, linkv, stash_event, reqs, lost,
                   allocated, bcast, partition, storage, cluster>>

\* tx.send(Event::Injected(Gossip)); then the thread locks and waits again.
TimerSends(n) ==
    /\ loop[n] = "running"
    /\ timer[n] = "send"
    /\ QueuedTicks(n) < MaxTicksQueued
    /\ rx' = [rx EXCEPT ![n] = Append(@, EventInjected)]
    /\ timer' = [timer EXCEPT ![n] = "wait"]
    /\ UNCHANGED <<net, stdin_open, loop, id, frame, seqkv, linkv, stash_event, reqs, lost,
                   allocated, bcast, gossip_waker, partition, storage, cluster>>

MaxTimerRequests == 2

NextTimer ==
    \/ TopologyClient({TopologyLine}, MaxTimerRequests)
    \/ BroadcastClient(MaxTimerRequests)
    \/ \E n \in Nodes : BroadcastDeliver(n)
    \/ \E n \in Nodes : TimerReturns(n)
    \/ \E n \in Nodes : TimerSends(n)
    \/ \E n \in Nodes : BroadcastPop(n, TRUE)

FairTimer ==
    \A n \in Nodes :
        /\ WF_vars(BroadcastDeliver(n))
        /\ WF_vars(TimerReturns(n))
        /\ WF_vars(TimerSends(n))
        /\ WF_vars(BroadcastPop(n, TRUE))

SpecTimer == InitBroadcast /\ [][NextTimer]_vars /\ FairTimer

\* C37: at every node Gossip ticks are injected again and again, whether
\* or not the waker is signalled; whenever the flag is up a tick is injected
\* later, also when the flag was raised while the thread was about to send
\* and not waiting (the flag leads to the thread leaving wait_timeout with
\* the flag cleared, and that leads to the send); and the flag goes down
\* only when the thread leaves wait_timeout to send a tick.
C37_TimerTicks ==
    /\ \A n \in Nodes : []<><<TimerSends(n)>>_vars
    /\ \A n \in Nodes : gossip_waker[n] ~> (~gossip_waker[n] /\ timer[n] = "send")
    /\ \A n \in Nodes : (timer[n] = "send") ~> (timer[n] = "wait")
    /\ [][\A n \in Nodes :
            (gossip_waker[n] /\ ~gossip_waker'[n]) =>
                (timer[n] = "wait" /\ timer'[n] = "send")]_vars

\* The flag of a node is up while its timer thread is about to send.
C37_Witness ==
    \E n \in Nodes : gossip_waker[n] /\ timer[n] = "send" /\ loop[n] = "running"


(***************************************************************************)
(* Broadcasts, reads and gossip together: clients broadcast and read while *)
(* the timer ticks and the network delivers.                               *)
(***************************************************************************)
NextValidity ==
    \/ TopologyClient({TopologyLine}, MaxBroadcastRequests)
    \/ BroadcastClient(MaxBroadcastRequests)
    \/ ReadClient(MaxBroadcastRequests)
    \/ \E n \in Nodes : BroadcastDeliver(n)
    \/ \E n \in Nodes : Tick(n)
    \/ \E n \in Nodes : BroadcastPop(n, TRUE)

SpecValidity == InitBroadcast /\ [][NextValidity]_vars

\* The values that clients have asked some node to broadcast.
BroadcastSent ==
    {reqs[r].payload.message :
        r \in {x \in 1 .. Len(reqs) : reqs[x].payload.type = "broadcast"}}

\* C38: every value in the messages set of a node, every value carried by
\* a gossip and every value returned by a read was the message of a
\* broadcast request of some client.
C38_Validity ==
    /\ \A n \in Nodes : bcast[n].messages \subseteq BroadcastSent
    /\ \A m \in net : m.payload.type = "gossip" => m.payload.seen \subseteq BroadcastSent
    /\ \A r \in 1 .. Len(reqs) : \A k \in 1 .. Len(reqs[r].replies) :
            reqs[r].replies[k].payload.type = "read_ok" =>
                reqs[r].replies[k].payload.messages \subseteq BroadcastSent

\* A read returned a value at a node that no client asked to broadcast it:
\* the value came by gossip.
C38_Witness ==
    \E r \in 1 .. Len(reqs) :
        /\ Acked(r)
        /\ reqs[r].replies[1].payload.type = "read_ok"
        /\ reqs[r].replies[1].payload.messages # {}
        /\ \A x \in 1 .. Len(reqs) :
                reqs[x].payload.type = "broadcast" => reqs[x].node # reqs[r].node


(***************************************************************************)
(* One source that does not wait for a reply before it sends its next      *)
(* request: its lines reach the node's stdin in the order it sent them,    *)
(* and their msg_ids grow in that order.                                   *)
(***************************************************************************)
MaxPipelined == 3
Pipeliner == "c0"

PipelinedClient ==
    /\ \E n \in Nodes :
        /\ Len(reqs) < MaxPipelined
        /\ loop[n] = "running"
        /\ stdin_open[n]
        /\ LET r == Len(reqs) + 1
               payload == [type |-> "send", key |-> "k", msg |-> r]
           IN
            /\ reqs' = Append(reqs, [node |-> n, payload |-> payload, replies |-> <<>>,
                                     after |-> AckedReqs])
            /\ rx' = [rx EXCEPT ![n] = Append(@, EventMessage(Message(Pipeliner, n, r, None,
                                                                      payload)))]
    /\ UNCHANGED <<net, stdin_open, loop, id, frame, seqkv, linkv, stash_event, lost,
                   allocated, bcast, gossip_waker, partition, storage, cluster, timer>>

NextPipelined ==
    \/ PipelinedClient
    \/ \E n \in Nodes : Deliver(n)
    \/ \E n \in Nodes : KafkaPop(n, {FALSE})

SpecPipelined == InitKafka /\ [][NextPipelined]_vars

\* Event ev is a request of the pipelining source.
FromPipeliner(ev) == ev.kind = "Message" /\ ev.msg.src = Pipeliner

\* C39: when main_loop hands a request of a source to step, no request that
\* the same source sent to the node before it is still waiting in the
\* queue: the requests of one source are handled in the order they arrived.
C39_HandledInArrivalOrder ==
    [][\A n \in Nodes :
        (/\ frame[n].pc = "idle"
         /\ Pops(n)
         /\ FromPipeliner(Head(rx[n])))
            => \A i \in 2 .. Len(rx[n]) :
                    FromPipeliner(rx[n][i]) => rx[n][i].msg.id > Head(rx[n]).msg.id]_vars


(***************************************************************************)
(* The Kafka node from the first line of its stdin: main_loop answers the  *)
(* init message, then the node takes sends for the keys of either node;    *)
(* a lin-kv reply may come after the timeout of the call.                  *)
(***************************************************************************)
InitKafkaBoot ==
    /\ rx = [n \in Nodes |-> <<>>]
    /\ net = {}
    /\ stdin_open = [n \in Nodes |-> TRUE]
    /\ loop = [n \in Nodes |-> "init"]
    /\ id = [n \in Nodes |-> 1]
    /\ frame = [n \in Nodes |-> Idle]
    /\ reqs = <<>>
    /\ lost = {}
    /\ NoCounter
    /\ linkv = <<>>
    /\ stash_event = [n \in Nodes |-> <<>>]
    /\ allocated = {}
    /\ NoBroadcast
    /\ NoStorage
    /\ cluster = <<"n0", "n1">>

NextKafkaBoot ==
    \/ \E n \in Nodes : MainInit(n)
    \/ KafkaClient(RoutedKeys, MaxBootRequests)
    \/ \E n \in Nodes : Deliver(n)
    \/ \E n \in Nodes : KafkaPop(n, BOOLEAN)

SpecKafkaBoot == InitKafkaBoot /\ [][NextKafkaBoot]_vars

\* The msg_ids of the lin-kv requests of node n whose replies are on their
\* way or queued: a reply of lin-kv names the request in in_reply_to.
CallIds(S, n) ==
    {m.in_reply_to : m \in {x \in S : x.dst = n /\ x.src = KV_NAME}}
QueuedAt(n) == {rx[n][i].msg : i \in {j \in 1 .. Len(rx[n]) : rx[n][j].kind = "Message"}}

\* C40: the msg_id counter of a node is 1 when the node starts, never goes
\* down, and is above every msg_id the node has given out; every message a
\* node has written carries a msg_id that no other message of the node and
\* no lin-kv request of the node carries; the msg_ids given out in one step
\* are the values the counter passed in that step, or earlier ones for a
\* reply numbered when its step began; msg_id 0 is carried by init_ok and
\* by nothing else.
C40_MsgIdsUnique ==
    /\ [](\A n \in Nodes :
            /\ loop[n] = "init" => id[n] = 1
            /\ \A m \in Wrote(n) :
                    /\ m.id # None
                    /\ m.id < id[n]
                    /\ m.id = 0 <=> m.payload.type = "init_ok"
            /\ \A m1, m2 \in Wrote(n) : m1.id = m2.id => m1 = m2
            /\ \A k \in CallIds(net, n) \cup CallIds(QueuedAt(n), n) :
                    /\ 1 <= k
                    /\ k < id[n]
                    /\ \A m \in Wrote(n) : m.id # k)
    /\ [][\A n \in Nodes :
            /\ id'[n] >= id[n]
            /\ \A k \in CallIds(net', n) \ CallIds(net, n) : id[n] <= k /\ k < id'[n]
            /\ \A m \in Wrote(n)' \ Wrote(n) : m.id # None /\ m.id < id'[n]]_vars

\* A node has answered init and a send, and has ended on an error with a
\* msg_id given to a reply it never wrote.
C40_Witness ==
    \E n \in Nodes :
        /\ \E m \in Wrote(n) : m.payload.type = "init_ok"
        /\ \E m \in Wrote(n) : m.payload.type = "send_ok" /\ IsClient(m.dst)
        /\ loop[n] = "err"
        /\ \E k \in 1 .. id[n] - 1 : \A m \in Wrote(n) : m.id # k

====
